---- MODULE Spec2Model ----
(***************************************************************************)
(* Model of the snowops analytics service: the orchestration layer         *)
(* (AnalyticsService), the scope predicates and aggregations of            *)
(* AnalyticsRepository, the HTTP error mapping, and the range normalizer.  *)
(*                                                                         *)
(* Time is an integer count of units since Go's zero time.Time             *)
(* (0001-01-01T00:00:00Z); DayUnits units make one day.  The zero value is *)
(* the "unset" timestamp (time.Time.IsZero), and times before it (year     *)
(* 0000, which RFC3339 parsing accepts) are negative.  The clock reads a    *)
(* time far after the zero time, as any real clock does.                   *)
(***************************************************************************)
EXTENDS Integers, Sequences, FiniteSets, TLC

VARIABLES
    defaultRange,   \* AnalyticsService.defaultRange (days)
    maxRange,       \* AnalyticsService.maxRange (days)
    clock,          \* the value time.Now() returns
    rngIn,          \* the DateRange / AnalyticsFilter a caller supplied
    rngOut,         \* normalizeFilter(rngIn)
    rngOut2,        \* normalizeFilter(rngOut), taken at a later clock
    rpc,            \* position of the range-normalization run
    trips,          \* stored rows of the trips relation
    lprEvents,      \* stored rows of the lpr_events relation
    relations,      \* names of the relations that exist in the data store
    pc,             \* "idle" before the request, "done" after it
    req,            \* the request served: report, principal and inputs
    scope,          \* the Scope ResolveScope returned, NULL if none
    resolveErr,     \* the error ResolveScope returned, "nil" if none
    calls,          \* the calls the service made, in order
    err,            \* the error the service returned to the handler
    resp,           \* the value the service returned to the handler
    httpStatus,     \* the status code the handler wrote
    httpBody,       \* the JSON body the handler wrote
    contractIn,     \* the one row of the contracts relation in a contract run
    contractOut     \* the rows ContractProgress returned in a contract run

rangeVars == <<defaultRange, maxRange, clock, rngIn, rngOut, rngOut2, rpc>>

storeVars == <<trips, lprEvents, relations>>

reqVars == <<pc, req, scope, resolveErr, calls, err, resp, httpStatus, httpBody>>

contractVars == <<contractIn, contractOut>>

vars == <<defaultRange, maxRange, clock, rngIn, rngOut, rngOut2, rpc,
          trips, lprEvents, relations,
          pc, req, scope, resolveErr, calls, err, resp, httpStatus, httpBody,
          contractIn, contractOut>>

NULL == "NULL"

-----------------------------------------------------------------------------
(* Bounds and program constants                                            *)

DayUnits == 2
MaxTime == 5
ClockStart == 100
MaxTicks == 2
Int64Days == 213504
ConfigDefaultRangeDays == 7
ConfigMaxRangeDays == 90

-----------------------------------------------------------------------------
(* time.Time and time.Duration                                             *)

ZeroTime == 0

\* a NULL timestamp column, a nil *time.Time
NoTime == ZeroTime - 1

IsZero(t) == t = ZeroTime

Before(a, b) == a < b

\* time.Duration is an int64 of nanoseconds: 2^64 ns is Int64Days days.
DurationModulus == Int64Days * DayUnits
MaxDuration == (DurationModulus \div 2) - 1
MinDuration == -(DurationModulus \div 2)

\* int64 multiplication wraps silently.
WrapDuration(x) == ((x + (DurationModulus \div 2)) % DurationModulus) - (DurationModulus \div 2)

\* time.Duration(days) * 24 * time.Hour
DaysDuration(days) == WrapDuration(days * DayUnits)

\* Time.Sub saturates at the largest / smallest Duration.
Sub(a, b) ==
    IF a - b > MaxDuration THEN MaxDuration
    ELSE IF a - b < MinDuration THEN MinDuration
    ELSE a - b

\* Time.Add
Add(t, d) == t + d

\* Time.AddDate(0, 0, days), in a zone without clock shifts
AddDate(t, days) == t + days * DayUnits

-----------------------------------------------------------------------------
(* model.AnalyticsFilter.Bucket and AnalyticsService.normalize*            *)

Bucket(groupBy) ==
    IF groupBy \in {"week", "month"} THEN groupBy ELSE "day"

NormStep1(rng, now) ==
    [rng EXCEPT !.To = IF IsZero(rng.To) THEN now ELSE rng.To]

NormStep2(rng, defDays) ==
    [rng EXCEPT !.From = IF IsZero(rng.From) THEN AddDate(rng.To, -defDays) ELSE rng.From]

NormStep3(rng) ==
    [rng EXCEPT !.From = IF Before(rng.To, rng.From) THEN Add(rng.To, -DayUnits) ELSE rng.From]

NormStep4(rng, maxDuration) ==
    [rng EXCEPT !.From = IF Sub(rng.To, rng.From) > maxDuration
                         THEN Add(rng.To, -maxDuration) ELSE rng.From]

normalizeRange(rng, now, defDays, maxDays) ==
    NormStep4(NormStep3(NormStep2(NormStep1(rng, now), defDays)), DaysDuration(maxDays))

normalizeFilter(filter, now, defDays, maxDays) ==
    [filter EXCEPT !.Range = normalizeRange(filter.Range, now, defDays, maxDays),
                   !.GroupBy = Bucket(filter.GroupBy)]

-----------------------------------------------------------------------------
(* Range normalization run: a caller-supplied filter is normalized, the    *)
(* clock may advance, and the result is normalized again.                  *)

TimeInputs == (-MaxTime)..MaxTime
GroupByInputs == {"day", "week", "month", "", "hour"}
DefaultRangeInputs == {1, 2}
MaxRangeInputs == {1, 3, Int64Days \div 2}

RangeInit ==
    /\ defaultRange \in DefaultRangeInputs
    /\ maxRange \in MaxRangeInputs
    /\ clock = ClockStart
    /\ rngIn \in [Range : [From : TimeInputs, To : TimeInputs], GroupBy : GroupByInputs]
    /\ rngOut = NULL
    /\ rngOut2 = NULL
    /\ rpc = "start"
    /\ trips = {}
    /\ lprEvents = {}
    /\ relations = {}
    /\ pc = "idle"
    /\ req = NULL
    /\ scope = NULL
    /\ resolveErr = "nil"
    /\ calls = <<>>
    /\ err = "nil"
    /\ resp = NULL
    /\ httpStatus = 0
    /\ httpBody = NULL
    /\ contractIn = NULL
    /\ contractOut = {}

Normalize ==
    /\ rpc = "start"
    /\ rngOut' = normalizeFilter(rngIn, clock, defaultRange, maxRange)
    /\ rpc' = "once"
    /\ UNCHANGED <<defaultRange, maxRange, clock, rngIn, rngOut2, storeVars, reqVars, contractVars>>

Tick ==
    /\ rpc = "once"
    /\ clock < ClockStart + MaxTicks
    /\ clock' = clock + 1
    /\ UNCHANGED <<defaultRange, maxRange, rngIn, rngOut, rngOut2, rpc, storeVars, reqVars, contractVars>>

NormalizeAgain ==
    /\ rpc = "once"
    /\ rngOut2' = normalizeFilter(rngOut, clock, defaultRange, maxRange)
    /\ rpc' = "twice"
    /\ UNCHANGED <<defaultRange, maxRange, clock, rngIn, rngOut, storeVars, reqVars, contractVars>>

RangeNext == Normalize \/ Tick \/ NormalizeAgain

SpecRange == RangeInit /\ [][RangeNext]_vars

-----------------------------------------------------------------------------
(* Claims about the range normalizer                                       *)

\* C9: for every input range and every configured defaultDays > 0 and
\* maxDays > 0, the normalized range has from <= to and a width of at most
\* maxDays days.
C9_ValidBoundedRange ==
    rpc # "start" =>
        /\ rngOut.Range.From <= rngOut.Range.To
        /\ rngOut.Range.To - rngOut.Range.From <= maxRange * DayUnits

\* C10: normalizing an already normalized filter returns it unchanged,
\* however far the clock advanced between the two calls.
C10_Idempotent ==
    rpc = "twice" => rngOut2 = rngOut

\* C11: normalizeRange computes exactly the three-step rule, over exact days:
\* an unset to becomes now, an unset from becomes to minus defaultDays, a from
\* after to becomes to minus one day, a width above maxDays moves from to
\* to minus maxDays; to is otherwise kept and nothing else moves from.
C11_ThreeStepRule ==
    rpc # "start" =>
        LET r == rngIn.Range
            to1 == IF r.To = ZeroTime THEN ClockStart ELSE r.To
            from1 == IF r.From = ZeroTime THEN to1 - defaultRange * DayUnits ELSE r.From
            from2 == IF to1 < from1 THEN to1 - DayUnits ELSE from1
            from3 == IF to1 - from2 > maxRange * DayUnits
                     THEN to1 - maxRange * DayUnits ELSE from2
        IN rngOut.Range = [From |-> from3, To |-> to1]

-----------------------------------------------------------------------------
(* The data store the service reads.  Organizations, tickets, contracts,   *)
(* cameras, polygons and volume events are fixed reference rows; the trips *)
(* and lpr_events relations and the set of existing relations vary.        *)

AllRelations ==
    {"trips", "tickets", "organizations", "cameras", "polygons", "lpr_events",
     "volume_events", "contracts", "contract_usage", "drivers", "vehicles",
     "cleaning_areas", "mv_trip_daily", "mv_violation_daily", "mv_cleaning_area_daily"}

Organizations ==
    { [id |-> "A",  type |-> "CONTRACTOR", parent_org_id |-> "K",  is_active |-> TRUE],
      [id |-> "B",  type |-> "CONTRACTOR", parent_org_id |-> "K",  is_active |-> TRUE],
      [id |-> "C",  type |-> "CONTRACTOR", parent_org_id |-> "K2", is_active |-> TRUE],
      [id |-> "K",  type |-> "KGU",        parent_org_id |-> "AK", is_active |-> TRUE],
      [id |-> "AK", type |-> "AKIMAT",     parent_org_id |-> NULL, is_active |-> TRUE] }

Tickets ==
    { [id |-> "tA", contractor_id |-> "A", created_by_org_id |-> "K",
       cleaning_area_id |-> "ar1", status |-> "IN_PROGRESS"],
      [id |-> "tB", contractor_id |-> "B", created_by_org_id |-> "AK",
       cleaning_area_id |-> "ar1", status |-> "COMPLETED"],
      [id |-> "tC", contractor_id |-> "C", created_by_org_id |-> "K",
       cleaning_area_id |-> "ar2", status |-> "PLANNED"] }

\* contracts LEFT JOIN contract_usage (total_cost, total_volume)
Contracts ==
    { [id |-> "cA", contractor_id |-> "A", created_by_org |-> "K",
       budget_total |-> 100, total_cost |-> 50, minimal_volume |-> 100, total_volume |-> 80,
       start_at |-> ClockStart - 60, end_at |-> ClockStart - 20],
      [id |-> "cB", contractor_id |-> "B", created_by_org |-> "AK",
       budget_total |-> 100, total_cost |-> 120, minimal_volume |-> 0, total_volume |-> 5,
       start_at |-> ClockStart - 10, end_at |-> ClockStart + 100],
      [id |-> "cC", contractor_id |-> "C", created_by_org |-> "K",
       budget_total |-> 0, total_cost |-> 0, minimal_volume |-> 50, total_volume |-> 60,
       start_at |-> ClockStart + 50, end_at |-> ClockStart + 100] }

Cameras ==
    { [id |-> "cam1", polygon_id |-> "p1"], [id |-> "cam2", polygon_id |-> NULL] }

Polygons == { [id |-> "p1"] }

VolumeEvents == { [id |-> "v1", camera_id |-> "cam1", detected_at |-> ClockStart - 4] }

LprPool ==
    { [id |-> "l1", camera_id |-> "cam1", detected_at |-> ClockStart - 4],
      [id |-> "l2", camera_id |-> "cam2", detected_at |-> ClockStart - 50] }

\* entry_at values: inside the default range, and inside the explicit one
Recent == ClockStart - 4
Old == ClockStart - 50

TripPool ==
    { [id |-> "tr1", ticket_id |-> "tA", camera_id |-> "cam1", polygon_id |-> "p1",
       driver_id |-> "d1", vehicle_id |-> "v1", status |-> "OK",
       entry_at |-> Recent, exit_at |-> Recent + 1, volume |-> 10],
      [id |-> "tr2", ticket_id |-> "tA", camera_id |-> "cam1", polygon_id |-> NULL,
       driver_id |-> "d1", vehicle_id |-> "v1", status |-> "CAMERA_ERROR",
       entry_at |-> Recent + 2, exit_at |-> NoTime, volume |-> 4],
      [id |-> "tr3", ticket_id |-> "tB", camera_id |-> "cam1", polygon_id |-> "p1",
       driver_id |-> "d2", vehicle_id |-> "v2", status |-> "CAMERA_ERROR",
       entry_at |-> Recent, exit_at |-> Recent + 1, volume |-> 6],
      [id |-> "tr4", ticket_id |-> "tB", camera_id |-> "cam2", polygon_id |-> NULL,
       driver_id |-> "d2", vehicle_id |-> "v2", status |-> "OK",
       entry_at |-> Recent - 6, exit_at |-> Recent - 5, volume |-> 8],
      [id |-> "tr5", ticket_id |-> "tC", camera_id |-> "cam1", polygon_id |-> "p1",
       driver_id |-> "d3", vehicle_id |-> NULL, status |-> "ROUTE_VIOLATION",
       entry_at |-> Recent, exit_at |-> NoTime, volume |-> 5],
      [id |-> "tr6", ticket_id |-> "tC", camera_id |-> "cam2", polygon_id |-> "p1",
       driver_id |-> NULL, vehicle_id |-> "v3", status |-> "OK",
       entry_at |-> Old, exit_at |-> Old + 1, volume |-> 7],
      [id |-> "tr7", ticket_id |-> NULL, camera_id |-> "cam2", polygon_id |-> NULL,
       driver_id |-> "d3", vehicle_id |-> "v3", status |-> "NO_LPR_EVENT",
       entry_at |-> Recent, exit_at |-> Recent + 1, volume |-> 3],
      [id |-> "tr8", ticket_id |-> "tA", camera_id |-> NULL, polygon_id |-> NULL,
       driver_id |-> "d1", vehicle_id |-> "v1", status |-> "OK",
       entry_at |-> Old, exit_at |-> NoTime, volume |-> 9] }

MaxTrips == 2

TripSets == { T \in SUBSET TripPool : Cardinality(T) <= MaxTrips }

Rollups == {"mv_trip_daily", "mv_violation_daily", "mv_cleaning_area_daily"}

\* everything exists; the polygons are not deployed; the rollups are not
\* created yet; the trips and tickets, and so their rollups, are not deployed;
\* the tickets, and so the rollups that join them, are not deployed
RelationSets ==
    { AllRelations, AllRelations \ {"polygons"}, AllRelations \ Rollups,
      AllRelations \ ({"trips", "tickets"} \cup Rollups),
      AllRelations \ ({"tickets"} \cup Rollups) }

-----------------------------------------------------------------------------
(* model.Principal and model.Scope                                         *)

Roles == {"AKIMAT", "KGU", "CONTRACTOR", "TOO", "DRIVER", "OTHER"}

Principals ==
    { [Role |-> "AKIMAT", OrgID |-> "AK"],
      [Role |-> "KGU", OrgID |-> "K"],
      [Role |-> "KGU", OrgID |-> NULL],
      [Role |-> "CONTRACTOR", OrgID |-> "A"],
      [Role |-> "CONTRACTOR", OrgID |-> "B"],
      [Role |-> "CONTRACTOR", OrgID |-> NULL],
      [Role |-> "TOO", OrgID |-> "TO"],
      [Role |-> "DRIVER", OrgID |-> "A"],
      [Role |-> "OTHER", OrgID |-> "A"] }

IsDriver(p) == p.Role = "DRIVER"
IsToo(p) == p.Role = "TOO"
IsAkimat(p) == p.Role = "AKIMAT"
IsKgu(p) == p.Role = "KGU"
IsContractor(p) == p.Role = "CONTRACTOR"

ScopeCity == "CITY"
ScopeKgu == "KGU"
ScopeContractor == "CONTRACTOR"
ScopeTechnical == "TECHNICAL"

MkScope(type, org, contractors) ==
    [Type |-> type, OrgID |-> org, ContractorIDs |-> contractors]

NoScope == MkScope("", NULL, {})

\* OrgDirectory.childContractorsOf
ChildContractors(org) ==
    { o.id : o \in { x \in Organizations : x.type = "CONTRACTOR" /\ x.parent_org_id = org } }

\* ScopeRepository.ResolveScope: a role without a scope mapping fails with
\* ErrScopeUnsupported; loading the child contractors of a KGU reads the
\* data store and fails when the store does.
ResolveScope(p, fault) ==
    IF IsAkimat(p) THEN [scope |-> MkScope(ScopeCity, p.OrgID, {}), err |-> "nil"]
    ELSE IF IsKgu(p) THEN
        IF fault = "scope" THEN [scope |-> NoScope, err |-> "dberr"]
        ELSE [scope |-> MkScope(ScopeKgu, p.OrgID,
                                IF p.OrgID = NULL THEN {} ELSE ChildContractors(p.OrgID)),
              err |-> "nil"]
    ELSE IF IsContractor(p) THEN [scope |-> MkScope(ScopeContractor, p.OrgID, {}), err |-> "nil"]
    ELSE IF IsToo(p) THEN [scope |-> MkScope(ScopeTechnical, NULL, {}), err |-> "nil"]
    ELSE [scope |-> NoScope, err |-> "ErrScopeUnsupported"]

-----------------------------------------------------------------------------
(* Scope predicates of AnalyticsRepository.  A predicate is modelled by    *)
(* the rows it keeps: r carries the columns contractor_id and              *)
(* created_by_org_id of the relation the query restricts (NULL where a     *)
(* LEFT JOIN found no ticket; a comparison with NULL keeps no row).        *)

\* applyTripScope with the Contractor case left unrestricted
applyTripScope_ContractorOpen(sc, r) ==
    CASE sc.Type = ScopeKgu ->
            IF sc.OrgID # NULL
            THEN IF sc.ContractorIDs # {}
                 THEN r.created_by_org_id = sc.OrgID \/ r.contractor_id \in sc.ContractorIDs
                 ELSE r.created_by_org_id = sc.OrgID
            ELSE TRUE
      [] sc.Type = ScopeTechnical -> FALSE
      [] OTHER -> TRUE

applyTripScope(sc, r) ==
    CASE sc.Type = ScopeCity -> TRUE
      [] sc.Type = ScopeKgu ->
            IF sc.OrgID # NULL
            THEN IF sc.ContractorIDs # {}
                 THEN r.created_by_org_id = sc.OrgID \/ r.contractor_id \in sc.ContractorIDs
                 ELSE r.created_by_org_id = sc.OrgID
            ELSE TRUE
      [] sc.Type = ScopeContractor ->
            IF sc.OrgID # NULL THEN r.contractor_id = sc.OrgID ELSE TRUE
      [] sc.Type = ScopeTechnical -> FALSE
      [] OTHER -> TRUE

applyTicketScope(sc, r) ==
    CASE sc.Type = ScopeCity -> TRUE
      [] sc.Type = ScopeKgu ->
            IF sc.OrgID # NULL THEN r.created_by_org_id = sc.OrgID ELSE TRUE
      [] sc.Type = ScopeContractor ->
            IF sc.OrgID # NULL THEN r.contractor_id = sc.OrgID ELSE TRUE
      [] sc.Type = ScopeTechnical -> FALSE
      [] OTHER -> TRUE

\* r.created_by_org_id is the column c.created_by_org of contracts
applyContractScope(sc, r) ==
    CASE sc.Type = ScopeCity -> TRUE
      [] sc.Type = ScopeKgu ->
            IF sc.OrgID # NULL THEN r.created_by_org_id = sc.OrgID ELSE TRUE
      [] sc.Type = ScopeContractor ->
            IF sc.OrgID # NULL THEN r.contractor_id = sc.OrgID ELSE TRUE
      [] OTHER -> FALSE

applyMVTripScope(sc, r) ==
    CASE sc.Type = ScopeCity -> TRUE
      [] sc.Type = ScopeKgu ->
            IF sc.OrgID # NULL
            THEN IF sc.ContractorIDs # {}
                 THEN r.created_by_org_id = sc.OrgID \/ r.contractor_id \in sc.ContractorIDs
                 ELSE r.created_by_org_id = sc.OrgID
            ELSE TRUE
      [] sc.Type = ScopeContractor ->
            IF sc.OrgID # NULL THEN r.contractor_id = sc.OrgID ELSE TRUE
      [] OTHER -> FALSE

applyMVCleaningAreaScope(sc, r) ==
    CASE sc.Type = ScopeCity -> TRUE
      [] sc.Type = ScopeKgu ->
            IF sc.OrgID # NULL
            THEN IF sc.ContractorIDs # {}
                 THEN r.created_by_org_id = sc.OrgID \/ r.contractor_id \in sc.ContractorIDs
                 ELSE r.created_by_org_id = sc.OrgID
            ELSE TRUE
      [] sc.Type = ScopeContractor ->
            IF sc.OrgID # NULL THEN r.contractor_id = sc.OrgID ELSE TRUE
      [] OTHER -> FALSE

-----------------------------------------------------------------------------
(* AnalyticsRepository: helpers.  A data store db is a record of the rows  *)
(* of its relations and the set of relations that exist.                   *)

MkDB(T, tickets, contracts, lpr, rels) ==
    [trips |-> T, tickets |-> tickets, contracts |-> contracts, lpr |-> lpr,
     relations |-> rels]

relationExists(db, name) == name \in db.relations

tablesAvailable(db, names) == \A n \in names : relationExists(db, n)

\* x BETWEEN from AND to
Between(x, rng) == rng.From <= x /\ x <= rng.To

RECURSIVE GCD(_, _)
GCD(a, b) == IF b = 0 THEN a ELSE GCD(b, a % b)

\* a float64 quotient n / d of two counts, kept as a reduced fraction
\* (a zero denominator is the NaN or infinite quotient)
Ratio(n, d) ==
    IF d = 0 THEN <<n, 0>>
    ELSE IF n = 0 THEN <<0, 1>>
    ELSE <<n \div GCD(n, d), d \div GCD(n, d)>>

Zero == <<0, 1>>

\* clamp() turns NaN and the infinities into 0
clamp(v) == IF v[2] = 0 THEN Zero ELSE v

RECURSIVE SumVolume(_)
SumVolume(S) ==
    IF S = {} THEN 0
    ELSE LET r == CHOOSE x \in S : TRUE IN r.volume + SumVolume(S \ {r})

RECURSIVE MaxOf(_)
MaxOf(S) ==
    IF S = {} THEN 0
    ELSE LET x == CHOOSE y \in S : TRUE
             m == MaxOf(S \ {x})
         IN IF x > m THEN x ELSE m

NoTicket ==
    [contractor_id |-> NULL, created_by_org_id |-> NULL, cleaning_area_id |-> NULL]

HasTicket(db, tr) == \E t \in db.tickets : t.id = tr.ticket_id

\* the ticket columns of "trips tr LEFT JOIN tickets t ON t.id = tr.ticket_id"
TicketCols(db, tr) ==
    IF HasTicket(db, tr)
    THEN LET t == CHOOSE x \in db.tickets : x.id = tr.ticket_id
         IN [contractor_id |-> t.contractor_id, created_by_org_id |-> t.created_by_org_id,
             cleaning_area_id |-> t.cleaning_area_id]
    ELSE NoTicket

\* rows of trips LEFT JOIN tickets that the trip scope keeps
ScopedTrips(db, sc) == { tr \in db.trips : applyTripScope(sc, TicketCols(db, tr)) }

\* rows of trips JOIN tickets that the trip scope keeps
ScopedTicketTrips(db, sc) == { tr \in ScopedTrips(db, sc) : HasTicket(db, tr) }

InRange(S, rng) == { tr \in S : Between(tr.entry_at, rng) }

CameraErrorStatuses == {"NO_LPR_EVENT", "NO_VOLUME_EVENT", "CAMERA_ERROR", "MISMATCH_PLATE"}

-----------------------------------------------------------------------------
(* AnalyticsRepository: the aggregations of the dashboard                  *)

ZeroStats ==
    [active_trips |-> 0, completed_trips |-> 0, violations |-> 0, tickets_in_progress |-> 0]

DashboardStats(db, sc, rng) ==
    IF ~tablesAvailable(db, {"trips", "tickets"}) THEN ZeroStats
    ELSE LET S == ScopedTrips(db, sc)
         IN [active_trips |-> Cardinality({ tr \in S : tr.exit_at = NoTime }),
             completed_trips |->
                 Cardinality({ tr \in S : tr.exit_at # NoTime /\ Between(tr.entry_at, rng) }),
             violations |->
                 Cardinality({ tr \in S : tr.status # "OK" /\ Between(tr.entry_at, rng) }),
             tickets_in_progress |->
                 Cardinality({ t \in db.tickets :
                                 /\ t.status \in {"IN_PROGRESS", "COMPLETED"}
                                 /\ applyTicketScope(sc, t) })]

\* the heat taken against one more than the largest trip count
TripHeat_Smoothed(rowTrips, maxTrips) == Ratio(rowTrips, maxTrips + 1)

\* heat of a row of CleaningAreaActivity
TripHeat(rowTrips, maxTrips) ==
    IF maxTrips > 0 THEN Ratio(rowTrips, maxTrips) ELSE Zero

CleaningAreaActivity(db, sc, rng) ==
    IF ~tablesAvailable(db, {"trips", "tickets"}) THEN {}
    ELSE LET S == InRange(ScopedTicketTrips(db, sc), rng)
             Of(a) == { tr \in S : TicketCols(db, tr).cleaning_area_id = a }
             areas == { TicketCols(db, tr).cleaning_area_id : tr \in S }
             maxTrips == MaxOf({ Cardinality(Of(a)) : a \in areas })
         IN { [cleaning_area_id |-> a,
               trips |-> Cardinality(Of(a)),
               active_trips |-> Cardinality({ tr \in Of(a) : tr.exit_at = NoTime }),
               has_violations |-> \E tr \in Of(a) : tr.status # "OK",
               trip_heat |-> TripHeat(Cardinality(Of(a)), maxTrips)] : a \in areas }

ContractorActivitySplit(db, sc, rng) ==
    IF ~tablesAvailable(db, {"trips", "tickets", "organizations"})
    THEN [active |-> {}, idle |-> {}]
    ELSE LET S == InRange(ScopedTicketTrips(db, sc), rng)
             Of(c) == { tr \in S : TicketCols(db, tr).contractor_id = c }
             ids == { TicketCols(db, tr).contractor_id : tr \in S }
             total == Cardinality(S)
             idleOrgs ==
                 { o \in Organizations :
                     /\ o.type = "CONTRACTOR" /\ o.is_active
                     /\ (sc.Type = ScopeKgu /\ sc.OrgID # NULL) => o.parent_org_id = sc.OrgID
                     /\ o.id \notin ids }
         IN [active |-> { [id |-> c, count |-> Cardinality(Of(c)),
                           volume |-> SumVolume(Of(c)),
                           share |-> IF total > 0 THEN Ratio(Cardinality(Of(c)), total)
                                     ELSE Zero] : c \in ids },
             idle |-> IF sc.Type \in {ScopeCity, ScopeKgu}
                      THEN { o.id : o \in idleOrgs } ELSE {}]

\* the cameras a scoped caller is shown: those of its own trips in the range
ScopedCameraIDs(db, sc, rng) ==
    { tr.camera_id :
        tr \in { x \in InRange(ScopedTicketTrips(db, sc), rng) : x.camera_id # NULL } }

\* the error of CameraLoad's query: its camera filter joins tickets, a relation
\* the availability check does not name
CameraLoadError(db, sc) ==
    IF /\ tablesAvailable(db, {"cameras", "polygons", "trips", "lpr_events", "volume_events"})
       /\ sc.Type # ScopeCity /\ sc.Type # ScopeTechnical
       /\ ~relationExists(db, "tickets")
    THEN "dberr" ELSE "nil"

CameraLoad(db, sc, rng) ==
    IF ~tablesAvailable(db, {"cameras", "polygons", "trips", "lpr_events", "volume_events"})
    THEN {}
    ELSE LET shown == IF sc.Type # ScopeCity /\ sc.Type # ScopeTechnical
                      THEN { c \in Cameras : c.id \in ScopedCameraIDs(db, sc, rng) }
                      ELSE Cameras
             Lpr(c) == Cardinality({ e \in db.lpr :
                                       e.camera_id = c.id /\ Between(e.detected_at, rng) })
             Vol(c) == Cardinality({ e \in VolumeEvents :
                                       e.camera_id = c.id /\ Between(e.detected_at, rng) })
             Errs(c) == Cardinality({ tr \in db.trips :
                                        /\ tr.camera_id = c.id
                                        /\ tr.status \in CameraErrorStatuses
                                        /\ Between(tr.entry_at, rng) })
         IN { [camera_id |-> c.id, polygon_id |-> c.polygon_id,
               lpr_events |-> Lpr(c), volume_events |-> Vol(c), error_events |-> Errs(c),
               error_rate |-> IF Lpr(c) + Vol(c) > 0
                              THEN clamp(Ratio(Errs(c), Lpr(c) + Vol(c)))
                              ELSE Zero] : c \in shown }

\* deriveContractStatus counting the end instant itself as expired
deriveContractStatus_EndExpired(start, end, now) ==
    IF now < start THEN "PLANNED"
    ELSE IF now >= end THEN "EXPIRED"
    ELSE "ACTIVE"

\* deriveContractResult without the branch for a zero minimal volume
deriveContractResult_NoZeroBranch(status, totalVolume, minimalVolume) ==
    IF status # "EXPIRED" THEN "NONE"
    ELSE IF totalVolume >= minimalVolume THEN "SUCCESS"
    ELSE "FAIL"

deriveContractStatus(start, end, now) ==
    IF now < start THEN "PLANNED"
    ELSE IF now > end THEN "EXPIRED"
    ELSE "ACTIVE"

deriveContractResult(status, totalVolume, minimalVolume) ==
    IF status # "EXPIRED" THEN "NONE"
    ELSE IF minimalVolume = 0 THEN "NONE"
    ELSE IF totalVolume >= minimalVolume THEN "SUCCESS"
    ELSE "FAIL"

ContractProgress(db, sc, now) ==
    IF ~tablesAvailable(db, {"contracts", "organizations", "contract_usage"}) THEN {}
    ELSE { [contract_id |-> c.id, contractor_id |-> c.contractor_id,
            budget_progress |-> IF c.budget_total > 0
                                THEN Ratio(c.total_cost, c.budget_total) ELSE Zero,
            volume_progress |-> IF c.minimal_volume > 0
                                THEN Ratio(c.total_volume, c.minimal_volume) ELSE Zero,
            ui_status |-> deriveContractStatus(c.start_at, c.end_at, now),
            result |-> deriveContractResult(deriveContractStatus(c.start_at, c.end_at, now),
                                            c.total_volume, c.minimal_volume)] :
           c \in { x \in db.contracts :
                     applyContractScope(sc, [contractor_id |-> x.contractor_id,
                                             created_by_org_id |-> x.created_by_org]) } }

NoMap == [areas |-> {}, polygons |-> {}, cameras |-> {}]

MapStates(db, sc, rng) ==
    IF ~tablesAvailable(db, {"trips", "tickets"}) THEN NoMap
    ELSE LET P == { tr \in InRange(ScopedTrips(db, sc), rng) : tr.polygon_id # NULL }
             shown == IF sc.Type # ScopeCity /\ sc.Type # ScopeTechnical
                      THEN { c \in Cameras : c.id \in ScopedCameraIDs(db, sc, rng) }
                      ELSE Cameras
         IN [areas |-> { [id |-> a.cleaning_area_id,
                          has_trips |-> a.trips > 0,
                          has_active_trips |-> a.active_trips > 0,
                          has_violations |-> a.has_violations,
                          intensity |-> a.trip_heat] : a \in CleaningAreaActivity(db, sc, rng) },
             polygons |->
                 IF tablesAvailable(db, {"polygons"})
                 THEN { [id |-> p,
                         trip_count |-> Cardinality({ tr \in P : tr.polygon_id = p }),
                         volume_m3 |-> SumVolume({ tr \in P : tr.polygon_id = p })] :
                        p \in { tr.polygon_id : tr \in P } }
                 ELSE {},
             cameras |->
                 IF tablesAvailable(db, {"cameras", "lpr_events", "trips"})
                 THEN { [id |-> c.id,
                         events |-> Cardinality({ e \in db.lpr :
                                        e.camera_id = c.id /\ Between(e.detected_at, rng) }),
                         error_events |-> Cardinality({ tr \in db.trips :
                                        /\ tr.camera_id = c.id /\ tr.status # "OK"
                                        /\ Between(tr.entry_at, rng) })] : c \in shown }
                 ELSE {}]

-----------------------------------------------------------------------------
(* AnalyticsRepository: the technical report and the trip card             *)

\* the sum of f[x] over the x in S
RECURSIVE SumBy(_, _)
SumBy(S, f) ==
    IF S = {} THEN 0
    ELSE LET r == CHOOSE x \in S : TRUE IN f[r] + SumBy(S \ {r}, f)

NoTechnical ==
    [cameras |-> {}, polygons |-> {}, error_rate |-> Zero, last_event_at |-> NoTime,
     total_events |-> 0, event_frequency |-> Zero]

TechnicalAnalytics(db, sc, rng) ==
    IF ~tablesAvailable(db, {"cameras"}) THEN NoTechnical
    ELSE LET cameras == CameraLoad(db, sc, rng)
             P(p) == { tr \in db.trips : tr.polygon_id = p.id /\ Between(tr.entry_at, rng) }
             totalEvents == SumBy(cameras, [c \in cameras |-> c.lpr_events + c.volume_events])
             errorEvents == SumBy(cameras, [c \in cameras |-> c.error_events])
             stamps == { e.detected_at :
                           e \in { x \in db.lpr \cup VolumeEvents : Between(x.detected_at, rng) } }
             duration == Sub(rng.To, rng.From)
         IN [cameras |-> cameras,
             polygons |->
                 IF tablesAvailable(db, {"polygons", "trips"})
                 THEN { [polygon_id |-> p.id,
                         trip_count |-> Cardinality(P(p)),
                         volume_m3 |-> SumVolume(P(p)),
                         error_events |-> Cardinality({ tr \in P(p) : tr.status # "OK" })] :
                        p \in Polygons }
                 ELSE {},
             error_rate |-> IF totalEvents > 0 THEN clamp(Ratio(errorEvents, totalEvents))
                            ELSE Zero,
             last_event_at |->
                 IF tablesAvailable(db, {"lpr_events", "volume_events"}) /\ stamps # {}
                 THEN MaxOf(stamps) ELSE NoTime,
             total_events |-> totalEvents,
             event_frequency |-> IF duration > 0 THEN clamp(Ratio(totalEvents, duration))
                                 ELSE Zero]

\* the row Take() finds, or gorm.ErrRecordNotFound
TripDetails(db, sc, tripID) ==
    IF ~tablesAvailable(db, {"trips", "tickets"})
    THEN [details |-> NULL, err |-> "ErrRecordNotFound"]
    ELSE LET found == { tr \in ScopedTrips(db, sc) : tr.id = tripID }
         IN IF found = {} THEN [details |-> NULL, err |-> "ErrRecordNotFound"]
            ELSE LET tr == CHOOSE x \in found : TRUE
                 IN [details |-> [trip_id |-> tr.id, ticket_id |-> tr.ticket_id,
                                  contractor_id |-> TicketCols(db, tr).contractor_id,
                                  cleaning_area_id |-> TicketCols(db, tr).cleaning_area_id,
                                  driver_id |-> tr.driver_id, vehicle_id |-> tr.vehicle_id,
                                  polygon_id |-> tr.polygon_id, status |-> tr.status,
                                  entry_at |-> tr.entry_at, exit_at |-> tr.exit_at,
                                  volume |-> tr.volume],
                     err |-> "nil"]

-----------------------------------------------------------------------------
(* The daily rollups (materialized views of db/migrations.go), as of their *)
(* last refresh from the trips relation.                                   *)

WeekDays == 7
MonthDays == 30

\* DATE_TRUNC(unit, t)
DateTrunc(unit, t) ==
    CASE unit = "week" -> t - (t % (WeekDays * DayUnits))
      [] unit = "month" -> t - (t % (MonthDays * DayUnits))
      [] OTHER -> t - (t % DayUnits)

buildDateTrunc(groupBy) ==
    CASE groupBy = "week" -> "week"
      [] groupBy = "month" -> "month"
      [] OTHER -> "day"

MvTripKey(db, tr) ==
    [bucket |-> DateTrunc("day", tr.entry_at),
     contractor_id |-> TicketCols(db, tr).contractor_id,
     created_by_org_id |-> TicketCols(db, tr).created_by_org_id,
     cleaning_area_id |-> TicketCols(db, tr).cleaning_area_id,
     driver_id |-> tr.driver_id, vehicle_id |-> tr.vehicle_id, polygon_id |-> tr.polygon_id]

MvTripDaily(db) ==
    { [key |-> k,
       total_trips |-> Cardinality({ tr \in db.trips : MvTripKey(db, tr) = k }),
       total_volume_m3 |-> SumVolume({ tr \in db.trips : MvTripKey(db, tr) = k }),
       violation_count |->
           Cardinality({ tr \in db.trips : MvTripKey(db, tr) = k /\ tr.status # "OK" })] :
      k \in { MvTripKey(db, tr) : tr \in db.trips } }

MvViolationKey(db, tr) ==
    [bucket |-> DateTrunc("day", tr.entry_at),
     contractor_id |-> TicketCols(db, tr).contractor_id,
     created_by_org_id |-> TicketCols(db, tr).created_by_org_id,
     cleaning_area_id |-> TicketCols(db, tr).cleaning_area_id,
     driver_id |-> tr.driver_id, violation_type |-> tr.status]

MvViolationDaily(db) ==
    LET V == { tr \in db.trips : tr.status # "OK" }
    IN { [key |-> k,
          violation_count |-> Cardinality({ tr \in V : MvViolationKey(db, tr) = k })] :
         k \in { MvViolationKey(db, tr) : tr \in V } }

MvAreaKey(db, tr) ==
    [bucket |-> DateTrunc("day", tr.entry_at),
     cleaning_area_id |-> TicketCols(db, tr).cleaning_area_id,
     contractor_id |-> TicketCols(db, tr).contractor_id,
     created_by_org_id |-> TicketCols(db, tr).created_by_org_id]

RECURSIVE MinOf(_)
MinOf(S) ==
    LET x == CHOOSE y \in S : TRUE
    IN IF S = {x} THEN x
       ELSE LET m == MinOf(S \ {x}) IN IF x < m THEN x ELSE m

\* COALESCE(tr.exit_at, tr.entry_at)
ExitOrEntry(tr) == IF tr.exit_at # NoTime THEN tr.exit_at ELSE tr.entry_at

MvCleaningAreaDaily(db) ==
    LET J == { tr \in db.trips : HasTicket(db, tr) }
        G(k) == { tr \in J : MvAreaKey(db, tr) = k }
    IN { [key |-> k,
          total_trips |-> Cardinality(G(k)),
          total_volume_m3 |-> SumVolume(G(k)),
          violation_count |-> Cardinality({ tr \in G(k) : tr.status # "OK" }),
          active_drivers |-> Cardinality({ tr.driver_id : tr \in G(k) } \ {NULL}),
          active_vehicles |-> Cardinality({ tr.vehicle_id : tr \in G(k) } \ {NULL}),
          first_entry_at |-> MinOf({ tr.entry_at : tr \in G(k) }),
          last_exit_at |-> MaxOf({ ExitOrEntry(tr) : tr \in G(k) })] :
         k \in { MvAreaKey(db, tr) : tr \in J } }

\* the elements of a set of numbers in ascending order
RECURSIVE AscSeq(_)
AscSeq(S) ==
    IF S = {} THEN <<>>
    ELSE <<MinOf(S)>> \o AscSeq(S \ {MinOf(S)})

-----------------------------------------------------------------------------
(* AnalyticsRepository: trip and violation analytics                       *)

\* the range compared with the bucket of the requested width, not the day's
TripSeriesRows_WideBucketFilter(db, sc, f) ==
    { m \in MvTripDaily(db) :
        /\ Between(DateTrunc(buildDateTrunc(f.GroupBy), m.key.bucket), f.Range)
        /\ f.ContractorID # NULL => m.key.contractor_id = f.ContractorID
        /\ f.DriverID # NULL => m.key.driver_id = f.DriverID
        /\ applyMVTripScope(sc, m.key) }

\* rows of mv_trip_daily a trip series reads
TripSeriesRows(db, sc, f) ==
    { m \in MvTripDaily(db) :
        /\ Between(m.key.bucket, f.Range)
        /\ f.ContractorID # NULL => m.key.contractor_id = f.ContractorID
        /\ f.DriverID # NULL => m.key.driver_id = f.DriverID
        /\ applyMVTripScope(sc, m.key) }

TripSeries(db, sc, f) ==
    IF ~relationExists(db, "mv_trip_daily") THEN <<>>
    ELSE LET rows == TripSeriesRows(db, sc, f)
             B(m) == DateTrunc(buildDateTrunc(f.GroupBy), m.key.bucket)
             bs == AscSeq({ B(m) : m \in rows })
             G(b) == { m \in rows : B(m) = b }
         IN [i \in 1..Len(bs) |->
                [bucket |-> bs[i],
                 count |-> SumBy(G(bs[i]), [m \in G(bs[i]) |-> m.total_trips])]]

TripVolumeSeries(db, sc, f) ==
    IF ~relationExists(db, "mv_trip_daily") THEN <<>>
    ELSE LET rows == TripSeriesRows(db, sc, f)
             B(m) == DateTrunc(buildDateTrunc(f.GroupBy), m.key.bucket)
             bs == AscSeq({ B(m) : m \in rows })
             G(b) == { m \in rows : B(m) = b }
         IN [i \in 1..Len(bs) |->
                [bucket |-> bs[i],
                 count |-> SumBy(G(bs[i]), [m \in G(bs[i]) |-> m.total_trips]),
                 value |-> SumBy(G(bs[i]), [m \in G(bs[i]) |-> m.total_volume_m3])]]

Min2(a, b) == IF a < b THEN a ELSE b

\* ORDER BY key DESC LIMIT limit: every list the data store may return
\* (rows with equal keys come in any order); key is a function on rows
Ranked(rows, key, limit) ==
    LET n == Min2(limit, Cardinality(rows))
    IN { q \in [1..n -> rows] :
           /\ \A i, j \in 1..n : i < j => q[i] # q[j] /\ key[q[i]] >= key[q[j]]
           /\ \A r \in rows : \A i \in 1..n :
                  (\A j \in 1..n : q[j] # r) => key[r] <= key[q[i]] }

\* the shares taken against the count of the first, largest row
WithShares_OverLargest(q) ==
    [i \in DOMAIN q |->
        [id |-> q[i].id, count |-> q[i].count, volume |-> q[i].volume,
         share |-> IF q[1].count > 0 THEN Ratio(q[i].count, q[1].count) ELSE Zero]]

\* share = count / sum of the counts of the returned rows
WithShares(q) ==
    LET total == SumBy(DOMAIN q, [i \in DOMAIN q |-> q[i].count])
    IN [i \in DOMAIN q |->
           [id |-> q[i].id, count |-> q[i].count, volume |-> q[i].volume,
            share |-> IF total > 0 THEN Ratio(q[i].count, total) ELSE Zero]]

\* GROUP BY id: id, COUNT(*), SUM(volume); ids is a function on S
GroupRows(S, ids) ==
    { [id |-> g, count |-> Cardinality({ tr \in S : ids[tr] = g }),
       volume |-> SumVolume({ tr \in S : ids[tr] = g })] : g \in { ids[tr] : tr \in S } }

TopDrivers(db, sc, f, limit) ==
    IF ~tablesAvailable(db, {"trips", "drivers", "tickets"}) THEN {<<>>}
    ELSE LET S == { tr \in InRange(ScopedTrips(db, sc), f.Range) : tr.driver_id # NULL }
             rows == GroupRows(S, [tr \in S |-> tr.driver_id])
         IN { WithShares(q) : q \in Ranked(rows, [r \in rows |-> r.count], limit) }

TopContractors(db, sc, f, limit) ==
    IF ~tablesAvailable(db, {"trips", "tickets", "organizations"}) THEN {<<>>}
    ELSE LET S == { tr \in InRange(ScopedTrips(db, sc), f.Range) :
                      TicketCols(db, tr).contractor_id # NULL }
             rows == GroupRows(S, [tr \in S |-> TicketCols(db, tr).contractor_id])
         IN { WithShares(q) : q \in Ranked(rows, [r \in rows |-> r.count], limit) }

\* EXTRACT(EPOCH FROM (COALESCE(exit_at, entry_at) - entry_at)), in time units
Duration(tr) == ExitOrEntry(tr) - tr.entry_at

\* percentile_disc(0.95): the least value with at least 95% of the rows at or below it
PercentileDisc95(S, v) ==
    IF S = {} THEN 0
    ELSE MinOf({ v[x] : x \in { y \in S :
                   Cardinality({ z \in S : v[z] <= v[y] }) * 100 >= 95 * Cardinality(S) } })

TripDurationStats(db, sc, f) ==
    IF ~tablesAvailable(db, {"trips", "tickets"}) THEN [avg |-> Zero, p95 |-> 0]
    ELSE LET S == InRange(ScopedTrips(db, sc), f.Range)
             d == [tr \in S |-> Duration(tr)]
         IN [avg |-> IF S = {} THEN Zero ELSE clamp(Ratio(SumBy(S, d), Cardinality(S))),
             p95 |-> PercentileDisc95(S, d)]

TripVolumeStats(db, sc, f) ==
    IF ~tablesAvailable(db, {"trips", "tickets"}) THEN [avg |-> Zero, max |-> 0, min |-> 0]
    ELSE LET S == InRange(ScopedTrips(db, sc), f.Range)
         IN [avg |-> IF S = {} THEN Zero ELSE Ratio(SumVolume(S), Cardinality(S)),
             max |-> MaxOf({ tr.volume : tr \in S }),
             min |-> IF S = {} THEN 0 ELSE MinOf({ tr.volume : tr \in S })]

ViolationRows(db, sc, f) ==
    { m \in MvViolationDaily(db) :
        Between(m.key.bucket, f.Range) /\ applyMVCleaningAreaScope(sc, m.key) }

ViolationSeries(db, sc, f) ==
    IF ~relationExists(db, "mv_violation_daily") THEN <<>>
    ELSE LET rows == ViolationRows(db, sc, f)
             B(m) == DateTrunc(buildDateTrunc(f.GroupBy), m.key.bucket)
             bs == AscSeq({ B(m) : m \in rows })
             G(b) == { m \in rows : B(m) = b }
         IN [i \in 1..Len(bs) |->
                [bucket |-> bs[i],
                 count |-> SumBy(G(bs[i]), [m \in G(bs[i]) |-> m.violation_count])]]

ViolationBreakdown(db, sc, f) ==
    IF ~relationExists(db, "mv_violation_daily") THEN {<<>>}
    ELSE LET rows == ViolationRows(db, sc, f)
             G(t) == { m \in rows : m.key.violation_type = t }
             types == { [id |-> t, volume |-> 0,
                         count |-> SumBy(G(t), [m \in G(t) |-> m.violation_count])] :
                        t \in { m.key.violation_type : m \in rows } }
         IN { WithShares(q) :
                q \in Ranked(types, [r \in types |-> r.count], Cardinality(types)) }

\* column is "t.contractor_id", "tr.driver_id" or "tr.camera_id"
ViolationLeaders(db, sc, f, column, limit) ==
    IF ~tablesAvailable(db, {"trips", "tickets"}) THEN {<<>>}
    ELSE LET S == { tr \in InRange(ScopedTrips(db, sc), f.Range) : tr.status # "OK" }
             ids == [tr \in S |->
                        CASE column = "t.contractor_id" -> TicketCols(db, tr).contractor_id
                          [] column = "tr.driver_id" -> tr.driver_id
                          [] OTHER -> tr.camera_id]
             rows == { [id |-> r.id, count |-> r.count, volume |-> 0] :
                       r \in GroupRows(S, ids) }
         IN { WithShares(q) : q \in Ranked(rows, [r \in rows |-> r.count], limit) }

-----------------------------------------------------------------------------
(* AnalyticsRepository: performance, KPIs and cleaning-area analytics      *)

Vehicles ==
    { [id |-> "v1", body_volume_m3 |-> 20], [id |-> "v2", body_volume_m3 |-> 0],
      [id |-> "v3", body_volume_m3 |-> 10] }

\* a duration of d time units in hours
Hours(d) == IF d >= 0 THEN Ratio(d * 24, DayUnits) ELSE <<d * 24, DayUnits>>

\* AVG(tr.detected_volume_entry)
AvgVolume(G) == IF G = {} THEN Zero ELSE Ratio(SumVolume(G), Cardinality(G))

\* SUM(CASE WHEN status <> 'OK' THEN 1 ELSE 0 END)::float / NULLIF(COUNT(*), 0)
ViolationRate(G) ==
    IF G = {} THEN Zero
    ELSE Ratio(Cardinality({ tr \in G : tr.status # "OK" }), Cardinality(G))

AvgDuration(G) ==
    IF G = {} THEN Zero ELSE Ratio(SumBy(G, [tr \in G |-> Duration(tr)]), Cardinality(G))

\* AVG(CASE WHEN v.body_volume_m3 > 0 THEN volume / v.body_volume_m3 END) over
\* the trips of one vehicle
AvgFillRate(G, vehicle) ==
    LET body == IF \E v \in Vehicles : v.id = vehicle
                THEN (CHOOSE v \in Vehicles : v.id = vehicle).body_volume_m3 ELSE 0
    IN IF body > 0 /\ G # {} THEN Ratio(SumVolume(G), Cardinality(G) * body) ELSE Zero

ContractorPerformance(db, sc, f, limit) ==
    IF ~tablesAvailable(db, {"trips", "tickets", "organizations"}) THEN {<<>>}
    ELSE LET S == { tr \in InRange(ScopedTrips(db, sc), f.Range) :
                      TicketCols(db, tr).contractor_id # NULL }
             G(c) == { tr \in S : TicketCols(db, tr).contractor_id = c }
             rows == { [id |-> c, trip_count |-> Cardinality(G(c)),
                        avg_volume |-> AvgVolume(G(c)),
                        violation_rate |-> clamp(ViolationRate(G(c))),
                        active_drivers |-> Cardinality({ tr.driver_id : tr \in G(c) } \ {NULL}),
                        utilization |->
                            clamp(Ratio(Cardinality(G(c)), IF limit > 1 THEN limit ELSE 1))] :
                       c \in { TicketCols(db, tr).contractor_id : tr \in S } }
         IN Ranked(rows, [r \in rows |-> r.trip_count], limit)

DriverPerformance(db, sc, f, limit) ==
    IF ~tablesAvailable(db, {"trips", "tickets", "drivers"}) THEN {<<>>}
    ELSE LET S == { tr \in InRange(ScopedTrips(db, sc), f.Range) : tr.driver_id # NULL }
             G(d) == { tr \in S : tr.driver_id = d }
             rows == { [id |-> d, trip_count |-> Cardinality(G(d)),
                        avg_volume |-> AvgVolume(G(d)),
                        violation_rate |-> clamp(ViolationRate(G(d))),
                        avg_duration |-> clamp(AvgDuration(G(d)))] :
                       d \in { tr.driver_id : tr \in S } }
         IN Ranked(rows, [r \in rows |-> r.trip_count], limit)

\* math.Max(rangeHours - tripCount * 1.5, 0)
PerformanceIdle(rng, tripCount) ==
    LET twice == 2 * 24 * Sub(rng.To, rng.From) - 3 * tripCount * DayUnits
    IN IF twice > 0 THEN Ratio(twice, 2 * DayUnits) ELSE Zero

VehiclePerformance(db, sc, f, limit) ==
    IF ~tablesAvailable(db, {"trips", "tickets", "vehicles"}) THEN {<<>>}
    ELSE LET S == { tr \in InRange(ScopedTrips(db, sc), f.Range) : tr.vehicle_id # NULL }
             G(v) == { tr \in S : tr.vehicle_id = v }
             rows == { [id |-> v, trip_count |-> Cardinality(G(v)),
                        avg_fill_rate |-> clamp(AvgFillRate(G(v), v)),
                        violation_rate |-> clamp(ViolationRate(G(v))),
                        idle_hours |-> PerformanceIdle(f.Range, Cardinality(G(v)))] :
                       v \in { tr.vehicle_id : tr \in S } }
         IN Ranked(rows, [r \in rows |-> r.trip_count], limit)

\* the rows come in no particular order: the result is the set of rows
DriverKPIs(db, sc, f) ==
    IF ~tablesAvailable(db, {"trips", "drivers", "tickets", "organizations"}) THEN {}
    ELSE LET S == { tr \in InRange(ScopedTrips(db, sc), f.Range) :
                      /\ tr.driver_id # NULL
                      /\ f.ContractorID # NULL =>
                             TicketCols(db, tr).contractor_id = f.ContractorID
                      /\ f.DriverID # NULL => tr.driver_id = f.DriverID }
             K(tr) == <<tr.driver_id, TicketCols(db, tr).contractor_id>>
             G(k) == { tr \in S : K(tr) = k }
         IN { [id |-> k[1], contractor_id |-> k[2], trip_count |-> Cardinality(G(k)),
               avg_volume |-> AvgVolume(G(k)),
               violation_rate |-> clamp(ViolationRate(G(k))),
               avg_duration |-> clamp(AvgDuration(G(k))),
               last_trip_at |-> MaxOf({ tr.entry_at : tr \in G(k) })] :
              k \in { K(tr) : tr \in S } }

\* the hours from the last trip to the end of the range, as they are
KPIIdle_Signed(rng, lastTrip) == Hours(Sub(rng.To, lastTrip))

\* idle hours since the last trip of a KPI row
KPIIdle(rng, lastTrip) ==
    IF Sub(rng.To, lastTrip) > 0 THEN clamp(Hours(Sub(rng.To, lastTrip))) ELSE Zero

VehicleKPIs(db, sc, f) ==
    IF ~tablesAvailable(db, {"trips", "vehicles", "tickets", "organizations"}) THEN {}
    ELSE LET S == { tr \in InRange(ScopedTrips(db, sc), f.Range) :
                      /\ tr.vehicle_id # NULL
                      /\ f.ContractorID # NULL =>
                             TicketCols(db, tr).contractor_id = f.ContractorID }
             K(tr) == <<tr.vehicle_id, TicketCols(db, tr).contractor_id>>
             G(k) == { tr \in S : K(tr) = k }
         IN { [id |-> k[1], contractor_id |-> k[2], trip_count |-> Cardinality(G(k)),
               avg_fill_rate |-> clamp(AvgFillRate(G(k), k[1])),
               violation_rate |-> clamp(ViolationRate(G(k))),
               idle_hours |-> KPIIdle(f.Range, MaxOf({ tr.entry_at : tr \in G(k) })),
               last_trip_at |-> MaxOf({ tr.entry_at : tr \in G(k) })] :
              k \in { K(tr) : tr \in S } }

CleaningAreaAnalytics(db, sc, f) ==
    IF ~relationExists(db, "mv_cleaning_area_daily") THEN {}
    ELSE LET rows == { m \in MvCleaningAreaDaily(db) :
                         Between(m.key.bucket, f.Range) /\ applyMVCleaningAreaScope(sc, m.key) }
             G(a) == { m \in rows : m.key.cleaning_area_id = a }
             tripCount(a) == SumBy(G(a), [m \in G(a) |-> m.total_trips])
             firstEntry(a) == MinOf({ m.first_entry_at : m \in G(a) })
             lastExit(a) == MaxOf({ m.last_exit_at : m \in G(a) })
         IN { [cleaning_area_id |-> a,
               trip_count |-> tripCount(a),
               volume_m3 |-> SumBy(G(a), [m \in G(a) |-> m.total_volume_m3]),
               violation_count |-> SumBy(G(a), [m \in G(a) |-> m.violation_count]),
               active_drivers |-> SumBy(G(a), [m \in G(a) |-> m.active_drivers]),
               active_vehicles |-> SumBy(G(a), [m \in G(a) |-> m.active_vehicles]),
               avg_interval_hours |->
                   IF tripCount(a) > 1 /\ Sub(lastExit(a), firstEntry(a)) > 0
                   THEN clamp(Ratio(Sub(lastExit(a), firstEntry(a)) * 24,
                                    DayUnits * tripCount(a)))
                   ELSE Zero,
               idle_hours |-> KPIIdle(f.Range, lastExit(a)),
               last_trip_at |-> lastExit(a)] :
              a \in { m.key.cleaning_area_id : m \in rows } }

-----------------------------------------------------------------------------
(* AnalyticsService.  The receiver s carries the configured range widths,  *)
(* the clock reading, the data store and the fault the store injects into  *)
(* scope resolution.  Every method yields the set of outcomes it may       *)
(* produce (the order of equal-ranked rows is the data store's choice); an *)
(* outcome records the calls made on the scope and analytics repositories. *)

ErrPermissionDenied == "ErrPermissionDenied"
ErrNotFound == "ErrNotFound"

NotResolved == [scope |-> NoScope, err |-> "nil"]

Outcome(made, rs, e, r) ==
    [calls |-> made, scope |-> rs.scope, resolveErr |-> rs.err, err |-> e, resp |-> r]

ServiceRange(s, rng) == normalizeRange(rng, s.now, s.defaultRange, s.maxRange)

ServiceFilter(s, filter) == normalizeFilter(filter, s.now, s.defaultRange, s.maxRange)

\* GetDashboard returning the ErrScopeUnsupported of ResolveScope as it is
GetDashboard_UnsupportedPassedOn(s, principal, rng) ==
    IF IsDriver(principal) THEN { Outcome(<<>>, NotResolved, ErrPermissionDenied, NULL) }
    ELSE LET rs == ResolveScope(principal, s.fault)
             n == ServiceRange(s, rng)
         IN IF rs.err # "nil" THEN { Outcome(<<"ResolveScope">>, rs, rs.err, NULL) }
            ELSE IF CameraLoadError(s.db, rs.scope) # "nil"
            THEN { Outcome(<<"ResolveScope", "DashboardStats", "CleaningAreaActivity",
                             "ContractorActivitySplit", "ContractProgress", "MapStates",
                             "CameraLoad">>, rs,
                           CameraLoadError(s.db, rs.scope), NULL) }
            ELSE IF rs.scope.Type # ScopeTechnical
            THEN { Outcome(<<"ResolveScope", "DashboardStats", "CleaningAreaActivity",
                             "ContractorActivitySplit", "ContractProgress", "MapStates",
                             "CameraLoad">>, rs, "nil",
                           [generated_for |-> n,
                            stats |-> DashboardStats(s.db, rs.scope, n),
                            areas |-> CleaningAreaActivity(s.db, rs.scope, n),
                            contractors |-> ContractorActivitySplit(s.db, rs.scope, n),
                            contracts |-> ContractProgress(s.db, rs.scope, s.now),
                            map |-> MapStates(s.db, rs.scope, n),
                            cameras |-> CameraLoad(s.db, rs.scope, n)]) }
            ELSE { Outcome(<<"ResolveScope", "CameraLoad">>, rs, "nil",
                           [generated_for |-> n, stats |-> ZeroStats, areas |-> {},
                            contractors |-> [active |-> {}, idle |-> {}],
                            contracts |-> {}, map |-> NoMap,
                            cameras |-> CameraLoad(s.db, rs.scope, n)]) }

\* GetDashboard running the operational aggregations for every scope type
GetDashboard_TechnicalUnguarded(s, principal, rng) ==
    IF IsDriver(principal) THEN { Outcome(<<>>, NotResolved, ErrPermissionDenied, NULL) }
    ELSE LET rs == ResolveScope(principal, s.fault)
             n == ServiceRange(s, rng)
         IN IF rs.err # "nil"
            THEN { Outcome(<<"ResolveScope">>, rs,
                           IF rs.err = "ErrScopeUnsupported" THEN ErrPermissionDenied
                           ELSE rs.err, NULL) }
            ELSE IF CameraLoadError(s.db, rs.scope) # "nil"
            THEN { Outcome(<<"ResolveScope", "DashboardStats", "CleaningAreaActivity",
                             "ContractorActivitySplit", "ContractProgress", "MapStates",
                             "CameraLoad">>, rs,
                           CameraLoadError(s.db, rs.scope), NULL) }
            ELSE { Outcome(<<"ResolveScope", "DashboardStats", "CleaningAreaActivity",
                             "ContractorActivitySplit", "ContractProgress", "MapStates",
                             "CameraLoad">>, rs, "nil",
                           [generated_for |-> n,
                            stats |-> DashboardStats(s.db, rs.scope, n),
                            areas |-> CleaningAreaActivity(s.db, rs.scope, n),
                            contractors |-> ContractorActivitySplit(s.db, rs.scope, n),
                            contracts |-> ContractProgress(s.db, rs.scope, s.now),
                            map |-> MapStates(s.db, rs.scope, n),
                            cameras |-> CameraLoad(s.db, rs.scope, n)]) }

GetDashboard(s, principal, rng) ==
    IF IsDriver(principal) THEN { Outcome(<<>>, NotResolved, ErrPermissionDenied, NULL) }
    ELSE LET rs == ResolveScope(principal, s.fault)
             n == ServiceRange(s, rng)
         IN IF rs.err # "nil"
            THEN { Outcome(<<"ResolveScope">>, rs,
                           IF rs.err = "ErrScopeUnsupported" THEN ErrPermissionDenied
                           ELSE rs.err, NULL) }
            ELSE IF CameraLoadError(s.db, rs.scope) # "nil"
            THEN { Outcome(<<"ResolveScope", "DashboardStats", "CleaningAreaActivity",
                             "ContractorActivitySplit", "ContractProgress", "MapStates",
                             "CameraLoad">>, rs,
                           CameraLoadError(s.db, rs.scope), NULL) }
            ELSE IF rs.scope.Type # ScopeTechnical
            THEN { Outcome(<<"ResolveScope", "DashboardStats", "CleaningAreaActivity",
                             "ContractorActivitySplit", "ContractProgress", "MapStates",
                             "CameraLoad">>, rs, "nil",
                           [generated_for |-> n,
                            stats |-> DashboardStats(s.db, rs.scope, n),
                            areas |-> CleaningAreaActivity(s.db, rs.scope, n),
                            contractors |-> ContractorActivitySplit(s.db, rs.scope, n),
                            contracts |-> ContractProgress(s.db, rs.scope, s.now),
                            map |-> MapStates(s.db, rs.scope, n),
                            cameras |-> CameraLoad(s.db, rs.scope, n)]) }
            ELSE { Outcome(<<"ResolveScope", "CameraLoad">>, rs, "nil",
                           [generated_for |-> n, stats |-> ZeroStats, areas |-> {},
                            contractors |-> [active |-> {}, idle |-> {}],
                            contracts |-> {}, map |-> NoMap,
                            cameras |-> CameraLoad(s.db, rs.scope, n)]) }

\* GetTripAnalytics serving a Technical scope instead of denying it
GetTripAnalytics_TechnicalServed(s, principal, filter) ==
    IF IsDriver(principal) THEN { Outcome(<<>>, NotResolved, ErrPermissionDenied, NULL) }
    ELSE LET rs == ResolveScope(principal, s.fault)
             n == ServiceFilter(s, filter)
         IN IF rs.err # "nil"
            THEN { Outcome(<<"ResolveScope">>, rs, ErrPermissionDenied, NULL) }
            ELSE { Outcome(<<"ResolveScope", "TripSeries", "TripVolumeSeries", "TopDrivers",
                             "TopContractors", "TripDurationStats", "TripVolumeStats">>,
                           rs, "nil",
                           [series |-> TripSeries(s.db, rs.scope, n),
                            volume_series |-> TripVolumeSeries(s.db, rs.scope, n),
                            top_drivers |-> td, top_contractors |-> tc,
                            duration_stats |-> TripDurationStats(s.db, rs.scope, n),
                            volume_stats |-> TripVolumeStats(s.db, rs.scope, n)]) :
                   td \in TopDrivers(s.db, rs.scope, n, 5),
                   tc \in TopContractors(s.db, rs.scope, n, 5) }

GetTripAnalytics(s, principal, filter) ==
    IF IsDriver(principal) THEN { Outcome(<<>>, NotResolved, ErrPermissionDenied, NULL) }
    ELSE LET rs == ResolveScope(principal, s.fault)
             n == ServiceFilter(s, filter)
         IN IF rs.err # "nil" \/ rs.scope.Type = ScopeTechnical
            THEN { Outcome(<<"ResolveScope">>, rs, ErrPermissionDenied, NULL) }
            ELSE { Outcome(<<"ResolveScope", "TripSeries", "TripVolumeSeries", "TopDrivers",
                             "TopContractors", "TripDurationStats", "TripVolumeStats">>,
                           rs, "nil",
                           [series |-> TripSeries(s.db, rs.scope, n),
                            volume_series |-> TripVolumeSeries(s.db, rs.scope, n),
                            top_drivers |-> td, top_contractors |-> tc,
                            duration_stats |-> TripDurationStats(s.db, rs.scope, n),
                            volume_stats |-> TripVolumeStats(s.db, rs.scope, n)]) :
                   td \in TopDrivers(s.db, rs.scope, n, 5),
                   tc \in TopContractors(s.db, rs.scope, n, 5) }

GetTripDetails(s, principal, tripID) ==
    IF IsDriver(principal) THEN { Outcome(<<>>, NotResolved, ErrPermissionDenied, NULL) }
    ELSE LET rs == ResolveScope(principal, s.fault)
             found == TripDetails(s.db, rs.scope, tripID)
         IN IF rs.err # "nil" \/ rs.scope.Type = ScopeTechnical
            THEN { Outcome(<<"ResolveScope">>, rs, ErrPermissionDenied, NULL) }
            ELSE IF found.err # "nil"
            THEN { Outcome(<<"ResolveScope", "TripDetails">>, rs,
                           IF found.err = "ErrRecordNotFound" THEN ErrNotFound ELSE found.err,
                           NULL) }
            ELSE { Outcome(<<"ResolveScope", "TripDetails">>, rs, "nil", found.details) }

\* convertCameraLeaders keeps the id and the count of each leader
convertCameraLeaders(metrics) ==
    [i \in DOMAIN metrics |->
        [camera_id |-> metrics[i].id, error_events |-> metrics[i].count]]

GetViolationAnalytics(s, principal, filter) ==
    IF IsDriver(principal) THEN { Outcome(<<>>, NotResolved, ErrPermissionDenied, NULL) }
    ELSE LET rs == ResolveScope(principal, s.fault)
             n == ServiceFilter(s, filter)
         IN IF rs.err # "nil" \/ rs.scope.Type = ScopeTechnical
            THEN { Outcome(<<"ResolveScope">>, rs, ErrPermissionDenied, NULL) }
            ELSE { Outcome(<<"ResolveScope", "ViolationSeries", "ViolationBreakdown",
                             "ViolationLeaders", "ViolationLeaders", "ViolationLeaders">>,
                           rs, "nil",
                           [series |-> ViolationSeries(s.db, rs.scope, n),
                            breakdown |-> bd, top_contractors |-> tc, top_drivers |-> td,
                            top_cameras |-> convertCameraLeaders(cams)]) :
                   bd \in ViolationBreakdown(s.db, rs.scope, n),
                   tc \in ViolationLeaders(s.db, rs.scope, n, "t.contractor_id", 5),
                   td \in ViolationLeaders(s.db, rs.scope, n, "tr.driver_id", 5),
                   cams \in ViolationLeaders(s.db, rs.scope, n, "tr.camera_id", 5) }

GetPerformanceAnalytics(s, principal, filter) ==
    IF IsDriver(principal) THEN { Outcome(<<>>, NotResolved, ErrPermissionDenied, NULL) }
    ELSE LET rs == ResolveScope(principal, s.fault)
             n == ServiceFilter(s, filter)
         IN IF rs.err # "nil" \/ rs.scope.Type = ScopeTechnical
            THEN { Outcome(<<"ResolveScope">>, rs, ErrPermissionDenied, NULL) }
            ELSE { Outcome(<<"ResolveScope", "ContractorPerformance", "DriverPerformance",
                             "VehiclePerformance">>, rs, "nil",
                           [contractors |-> cp, drivers |-> dp, vehicles |-> vp]) :
                   cp \in ContractorPerformance(s.db, rs.scope, n, 10),
                   dp \in DriverPerformance(s.db, rs.scope, n, 10),
                   vp \in VehiclePerformance(s.db, rs.scope, n, 10) }

\* a < b for two finite quotients
RatioLess(a, b) == a[1] * b[2] < b[1] * a[2]

\* every order in which the rows of a set can be returned
Orders(S) ==
    { q \in [1..Cardinality(S) -> S] : \A i, j \in DOMAIN q : i # j => q[i] # q[j] }

\* sort.Slice with the given less, a function on pairs of rows: the results it
\* may leave (it is not stable)
SortSlice(items, less) ==
    { q \in Orders({ items[i] : i \in DOMAIN items }) :
        \A i, j \in DOMAIN q : i < j => ~less[<<q[j], q[i]>>] }

takeContracts(items, limit) ==
    IF Len(items) <= limit THEN items ELSE SubSeq(items, 1, limit)

\* predicate is a function on rows
filterContracts(items, predicate) == SelectSeq(items, LAMBDA c : predicate[c])

\* GetContractAnalytics sorting the contracts slice itself, without the copy
ContractAnalytics_SortInPlace(contracts) ==
    LET rows == { contracts[i] : i \in DOMAIN contracts }
        byBudgetDesc == [p \in rows \X rows |->
                           RatioLess(p[2].budget_progress, p[1].budget_progress)]
        byVolumeAsc == [p \in rows \X rows |->
                          RatioLess(p[1].volume_progress, p[2].volume_progress)]
        isAtRisk == [c \in rows |-> c.ui_status = "EXPIRED" /\ c.result = "FAIL"]
        overBudget == [c \in rows |-> RatioLess(<<1, 1>>, c.budget_progress)]
    IN UNION { UNION {
           { [summary |-> summary,
              top_budget |-> takeContracts(summary, 5),
              at_risk |-> takeContracts(atRisk, 5),
              budget_issues |-> takeContracts(budgetIssues, 5)] :
             budgetIssues \in SortSlice(filterContracts(summary, overBudget),
                                        byBudgetDesc) } :
             atRisk \in SortSlice(filterContracts(summary, isAtRisk), byVolumeAsc) } :
             summary \in SortSlice(contracts, byBudgetDesc) }

\* GetContractAnalytics after ContractProgress returned contracts: the
\* responses it may build
ContractAnalytics(contracts) ==
    LET rows == { contracts[i] : i \in DOMAIN contracts }
        byBudgetDesc == [p \in rows \X rows |->
                           RatioLess(p[2].budget_progress, p[1].budget_progress)]
        byVolumeAsc == [p \in rows \X rows |->
                          RatioLess(p[1].volume_progress, p[2].volume_progress)]
        isAtRisk == [c \in rows |-> c.ui_status = "EXPIRED" /\ c.result = "FAIL"]
        overBudget == [c \in rows |-> RatioLess(<<1, 1>>, c.budget_progress)]
    IN UNION { UNION {
           { [summary |-> contracts,
              top_budget |-> takeContracts(summary, 5),
              at_risk |-> takeContracts(atRisk, 5),
              budget_issues |-> takeContracts(budgetIssues, 5)] :
             budgetIssues \in SortSlice(filterContracts(contracts, overBudget),
                                        byBudgetDesc) } :
             atRisk \in SortSlice(filterContracts(contracts, isAtRisk), byVolumeAsc) } :
             summary \in SortSlice(contracts, byBudgetDesc) }

GetContractAnalytics(s, principal) ==
    IF IsDriver(principal) THEN { Outcome(<<>>, NotResolved, ErrPermissionDenied, NULL) }
    ELSE LET rs == ResolveScope(principal, s.fault)
             rows == ContractProgress(s.db, rs.scope, s.now)
         IN IF rs.err # "nil" \/ rs.scope.Type = ScopeTechnical
            THEN { Outcome(<<"ResolveScope">>, rs, ErrPermissionDenied, NULL) }
            ELSE UNION {
                   { Outcome(<<"ResolveScope", "ContractProgress">>, rs, "nil", data) :
                     data \in ContractAnalytics(contracts) } :
                     contracts \in Orders(rows) }

\* GetAreaAnalytics checking the role only after the scope is resolved
GetAreaAnalytics_GateAfterResolve(s, principal, filter) ==
    LET rs == ResolveScope(principal, s.fault)
        n == ServiceFilter(s, filter)
    IN IF IsDriver(principal) \/ IsToo(principal)
          \/ rs.err # "nil" \/ rs.scope.Type = ScopeTechnical
       THEN { Outcome(<<"ResolveScope">>, rs, ErrPermissionDenied, NULL) }
       ELSE { Outcome(<<"ResolveScope", "CleaningAreaAnalytics">>, rs, "nil",
                      CleaningAreaAnalytics(s.db, rs.scope, n)) }

GetAreaAnalytics(s, principal, filter) ==
    IF IsDriver(principal) \/ IsToo(principal)
    THEN { Outcome(<<>>, NotResolved, ErrPermissionDenied, NULL) }
    ELSE LET rs == ResolveScope(principal, s.fault)
             n == ServiceFilter(s, filter)
         IN IF rs.err # "nil" \/ rs.scope.Type = ScopeTechnical
            THEN { Outcome(<<"ResolveScope">>, rs, ErrPermissionDenied, NULL) }
            ELSE { Outcome(<<"ResolveScope", "CleaningAreaAnalytics">>, rs, "nil",
                           CleaningAreaAnalytics(s.db, rs.scope, n)) }

GetDriverKPIs(s, principal, filter) ==
    IF IsDriver(principal) \/ IsToo(principal)
    THEN { Outcome(<<>>, NotResolved, ErrPermissionDenied, NULL) }
    ELSE LET rs == ResolveScope(principal, s.fault)
             n == ServiceFilter(s, filter)
         IN IF rs.err # "nil" \/ rs.scope.Type = ScopeTechnical
            THEN { Outcome(<<"ResolveScope">>, rs, ErrPermissionDenied, NULL) }
            ELSE { Outcome(<<"ResolveScope", "DriverKPIs">>, rs, "nil",
                           DriverKPIs(s.db, rs.scope, n)) }

GetVehicleKPIs(s, principal, filter) ==
    IF IsDriver(principal) \/ IsToo(principal)
    THEN { Outcome(<<>>, NotResolved, ErrPermissionDenied, NULL) }
    ELSE LET rs == ResolveScope(principal, s.fault)
             n == ServiceFilter(s, filter)
         IN IF rs.err # "nil" \/ rs.scope.Type = ScopeTechnical
            THEN { Outcome(<<"ResolveScope">>, rs, ErrPermissionDenied, NULL) }
            ELSE { Outcome(<<"ResolveScope", "VehicleKPIs">>, rs, "nil",
                           VehicleKPIs(s.db, rs.scope, n)) }

GetTechnicalAnalytics(s, principal, rng) ==
    IF ~(IsToo(principal) \/ IsAkimat(principal) \/ IsKgu(principal))
    THEN { Outcome(<<>>, NotResolved, ErrPermissionDenied, NULL) }
    ELSE LET rs == ResolveScope(principal, s.fault)
             n == ServiceRange(s, rng)
         IN IF rs.err # "nil"
            THEN { Outcome(<<"ResolveScope">>, rs, rs.err, NULL) }
            ELSE IF tablesAvailable(s.db, {"cameras"}) /\ CameraLoadError(s.db, rs.scope) # "nil"
            THEN { Outcome(<<"ResolveScope", "TechnicalAnalytics">>, rs,
                           CameraLoadError(s.db, rs.scope), NULL) }
            ELSE { Outcome(<<"ResolveScope", "TechnicalAnalytics">>, rs, "nil",
                           TechnicalAnalytics(s.db, rs.scope, n)) }

-----------------------------------------------------------------------------
(* The HTTP handlers: one request is served from the idle service.         *)

\* An error value is the chain of its layers, outermost first: errors.New
\* makes a chain of one layer, wrapping with %w puts a layer in front.
\* errors.Is finds the target anywhere in the chain.
errorsIs(e, target) == \E i \in DOMAIN e : e[i] = target

\* the text of one layer
ErrorText(layer) ==
    CASE layer = ErrPermissionDenied -> "permission denied"
      [] layer = ErrNotFound -> "not found"
      [] layer = "ErrScopeUnsupported" -> "scope unsupported"
      [] layer = "dberr" -> "pq: relation does not exist"
      [] OTHER -> layer

\* err.Error(): the texts of the layers, joined
Error(e) == [i \in DOMAIN e |-> ErrorText(e[i])]

errorResponse(message) == [error |-> message]

successResponse(data) == [data |-> data]

\* handleError comparing the error itself with the sentinels
handleError_Equality(e) ==
    IF e = <<ErrPermissionDenied>>
    THEN [status |-> 403, body |-> errorResponse(Error(e))]
    ELSE IF e = <<ErrNotFound>>
    THEN [status |-> 404, body |-> errorResponse(Error(e))]
    ELSE [status |-> 500, body |-> errorResponse(<<"internal error">>)]

\* the status and the body handleError writes for a service error
handleError(e) ==
    IF errorsIs(e, ErrPermissionDenied)
    THEN [status |-> 403, body |-> errorResponse(Error(e))]
    ELSE IF errorsIs(e, ErrNotFound)
    THEN [status |-> 404, body |-> errorResponse(Error(e))]
    ELSE [status |-> 500, body |-> errorResponse(<<"internal error">>)]

Operations ==
    {"getDashboard", "getTripAnalytics", "getTripDetails", "getViolationAnalytics",
     "getPerformanceAnalytics", "getContractAnalytics", "listAreas", "listDrivers",
     "listVehicles", "getTechnicalAnalytics"}

\* the outcomes of the service method an HTTP handler calls
Serve(op, s, principal, filter, tripID) ==
    CASE op = "getDashboard" -> GetDashboard(s, principal, filter.Range)
      [] op = "getTripAnalytics" -> GetTripAnalytics(s, principal, filter)
      [] op = "getTripDetails" -> GetTripDetails(s, principal, tripID)
      [] op = "getViolationAnalytics" -> GetViolationAnalytics(s, principal, filter)
      [] op = "getPerformanceAnalytics" -> GetPerformanceAnalytics(s, principal, filter)
      [] op = "getContractAnalytics" -> GetContractAnalytics(s, principal)
      [] op = "listAreas" -> GetAreaAnalytics(s, principal, filter)
      [] op = "listDrivers" -> GetDriverKPIs(s, principal, filter)
      [] op = "listVehicles" -> GetVehicleKPIs(s, principal, filter)
      [] OTHER -> GetTechnicalAnalytics(s, principal, filter.Range)

Unset == [From |-> ZeroTime, To |-> ZeroTime]

Archive == [From |-> ClockStart - 60, To |-> ClockStart - 40]

MkFilter(rng, groupBy, contractor, driver) ==
    [Range |-> rng, GroupBy |-> groupBy, ContractorID |-> contractor, DriverID |-> driver]

RangeInputs == { MkFilter(Unset, "day", NULL, NULL), MkFilter(Archive, "day", NULL, NULL) }

\* the last range starts and ends on the entry instants of stored trips
FilterInputs ==
    RangeInputs \cup
        { MkFilter(Unset, "week", NULL, NULL), MkFilter(Unset, "day", "B", NULL),
          MkFilter(Unset, "day", NULL, "d1"), MkFilter(Archive, "month", "C", NULL),
          MkFilter([From |-> Recent - 6, To |-> Recent], "day", NULL, NULL) }

NoFilter == MkFilter(Unset, "day", NULL, NULL)

TripIDInputs == {"tr1", "tr3", "tr7", "tr0"}

\* scope resolution reads the data store only for a KGU principal
FaultInputs(principal) == IF IsKgu(principal) THEN {"none", "scope"} ELSE {"none"}

CurrentDB == MkDB(trips, Tickets, Contracts, lprEvents, relations)

Service(fault) ==
    [defaultRange |-> defaultRange, maxRange |-> maxRange, now |-> clock,
     db |-> CurrentDB, fault |-> fault]

\* the request a handler served
MkRequest(op, principal, filter, tripID, fault) ==
    [op |-> op, principal |-> principal, filter |-> filter, tripID |-> tripID,
     fault |-> fault]

\* the status a handler writes: 200 with the data, or handleError's
Status(e) == IF e = "nil" THEN 200 ELSE handleError(<<e>>).status

\* the body a handler writes: the data, or handleError's
Body(e, data) == IF e = "nil" THEN successResponse(data) ELSE handleError(<<e>>).body

getDashboard ==
    /\ pc = "idle"
    /\ \E p \in Principals, f \in RangeInputs : \E fault \in FaultInputs(p) :
          \E o \in GetDashboard(Service(fault), p, f.Range) :
              /\ req' = MkRequest("getDashboard", p, f, NULL, fault)
              /\ scope' = o.scope
              /\ resolveErr' = o.resolveErr
              /\ calls' = o.calls
              /\ err' = o.err
              /\ resp' = o.resp
              /\ httpStatus' = Status(o.err)
              /\ httpBody' = Body(o.err, o.resp)
    /\ pc' = "done"
    /\ UNCHANGED <<rangeVars, storeVars, contractVars>>

getTripAnalytics ==
    /\ pc = "idle"
    /\ \E p \in Principals, f \in FilterInputs : \E fault \in FaultInputs(p) :
          \E o \in GetTripAnalytics(Service(fault), p, f) :
              /\ req' = MkRequest("getTripAnalytics", p, f, NULL, fault)
              /\ scope' = o.scope
              /\ resolveErr' = o.resolveErr
              /\ calls' = o.calls
              /\ err' = o.err
              /\ resp' = o.resp
              /\ httpStatus' = Status(o.err)
              /\ httpBody' = Body(o.err, o.resp)
    /\ pc' = "done"
    /\ UNCHANGED <<rangeVars, storeVars, contractVars>>

getTripDetails ==
    /\ pc = "idle"
    /\ \E p \in Principals, id \in TripIDInputs : \E fault \in FaultInputs(p) :
          \E o \in GetTripDetails(Service(fault), p, id) :
              /\ req' = MkRequest("getTripDetails", p, NoFilter, id, fault)
              /\ scope' = o.scope
              /\ resolveErr' = o.resolveErr
              /\ calls' = o.calls
              /\ err' = o.err
              /\ resp' = o.resp
              /\ httpStatus' = Status(o.err)
              /\ httpBody' = Body(o.err, o.resp)
    /\ pc' = "done"
    /\ UNCHANGED <<rangeVars, storeVars, contractVars>>

getViolationAnalytics ==
    /\ pc = "idle"
    /\ \E p \in Principals, f \in FilterInputs : \E fault \in FaultInputs(p) :
          \E o \in GetViolationAnalytics(Service(fault), p, f) :
              /\ req' = MkRequest("getViolationAnalytics", p, f, NULL, fault)
              /\ scope' = o.scope
              /\ resolveErr' = o.resolveErr
              /\ calls' = o.calls
              /\ err' = o.err
              /\ resp' = o.resp
              /\ httpStatus' = Status(o.err)
              /\ httpBody' = Body(o.err, o.resp)
    /\ pc' = "done"
    /\ UNCHANGED <<rangeVars, storeVars, contractVars>>

getPerformanceAnalytics ==
    /\ pc = "idle"
    /\ \E p \in Principals, f \in FilterInputs : \E fault \in FaultInputs(p) :
          \E o \in GetPerformanceAnalytics(Service(fault), p, f) :
              /\ req' = MkRequest("getPerformanceAnalytics", p, f, NULL, fault)
              /\ scope' = o.scope
              /\ resolveErr' = o.resolveErr
              /\ calls' = o.calls
              /\ err' = o.err
              /\ resp' = o.resp
              /\ httpStatus' = Status(o.err)
              /\ httpBody' = Body(o.err, o.resp)
    /\ pc' = "done"
    /\ UNCHANGED <<rangeVars, storeVars, contractVars>>

getContractAnalytics ==
    /\ pc = "idle"
    /\ \E p \in Principals : \E fault \in FaultInputs(p) :
          \E o \in GetContractAnalytics(Service(fault), p) :
              /\ req' = MkRequest("getContractAnalytics", p, NoFilter, NULL, fault)
              /\ scope' = o.scope
              /\ resolveErr' = o.resolveErr
              /\ calls' = o.calls
              /\ err' = o.err
              /\ resp' = o.resp
              /\ httpStatus' = Status(o.err)
              /\ httpBody' = Body(o.err, o.resp)
    /\ pc' = "done"
    /\ UNCHANGED <<rangeVars, storeVars, contractVars>>

listAreas ==
    /\ pc = "idle"
    /\ \E p \in Principals, f \in FilterInputs : \E fault \in FaultInputs(p) :
          \E o \in GetAreaAnalytics(Service(fault), p, f) :
              /\ req' = MkRequest("listAreas", p, f, NULL, fault)
              /\ scope' = o.scope
              /\ resolveErr' = o.resolveErr
              /\ calls' = o.calls
              /\ err' = o.err
              /\ resp' = o.resp
              /\ httpStatus' = Status(o.err)
              /\ httpBody' = Body(o.err, o.resp)
    /\ pc' = "done"
    /\ UNCHANGED <<rangeVars, storeVars, contractVars>>

listDrivers ==
    /\ pc = "idle"
    /\ \E p \in Principals, f \in FilterInputs : \E fault \in FaultInputs(p) :
          \E o \in GetDriverKPIs(Service(fault), p, f) :
              /\ req' = MkRequest("listDrivers", p, f, NULL, fault)
              /\ scope' = o.scope
              /\ resolveErr' = o.resolveErr
              /\ calls' = o.calls
              /\ err' = o.err
              /\ resp' = o.resp
              /\ httpStatus' = Status(o.err)
              /\ httpBody' = Body(o.err, o.resp)
    /\ pc' = "done"
    /\ UNCHANGED <<rangeVars, storeVars, contractVars>>

listVehicles ==
    /\ pc = "idle"
    /\ \E p \in Principals, f \in FilterInputs : \E fault \in FaultInputs(p) :
          \E o \in GetVehicleKPIs(Service(fault), p, f) :
              /\ req' = MkRequest("listVehicles", p, f, NULL, fault)
              /\ scope' = o.scope
              /\ resolveErr' = o.resolveErr
              /\ calls' = o.calls
              /\ err' = o.err
              /\ resp' = o.resp
              /\ httpStatus' = Status(o.err)
              /\ httpBody' = Body(o.err, o.resp)
    /\ pc' = "done"
    /\ UNCHANGED <<rangeVars, storeVars, contractVars>>

getTechnicalAnalytics ==
    /\ pc = "idle"
    /\ \E p \in Principals, f \in RangeInputs : \E fault \in FaultInputs(p) :
          \E o \in GetTechnicalAnalytics(Service(fault), p, f.Range) :
              /\ req' = MkRequest("getTechnicalAnalytics", p, f, NULL, fault)
              /\ scope' = o.scope
              /\ resolveErr' = o.resolveErr
              /\ calls' = o.calls
              /\ err' = o.err
              /\ resp' = o.resp
              /\ httpStatus' = Status(o.err)
              /\ httpBody' = Body(o.err, o.resp)
    /\ pc' = "done"
    /\ UNCHANGED <<rangeVars, storeVars, contractVars>>

Init ==
    /\ defaultRange = ConfigDefaultRangeDays
    /\ maxRange = ConfigMaxRangeDays
    /\ clock = ClockStart
    /\ rngIn = NoFilter
    /\ rngOut = NoFilter
    /\ rngOut2 = NoFilter
    /\ rpc = "start"
    /\ trips \in TripSets
    /\ lprEvents \in {LprPool, {}}
    /\ relations \in RelationSets
    /\ pc = "idle"
    /\ req = NULL
    /\ scope = NULL
    /\ resolveErr = "nil"
    /\ calls = <<>>
    /\ err = "nil"
    /\ resp = NULL
    /\ httpStatus = 0
    /\ httpBody = NULL
    /\ contractIn = NULL
    /\ contractOut = {}

Next ==
    \/ getDashboard
    \/ getTripAnalytics
    \/ getTripDetails
    \/ getViolationAnalytics
    \/ getPerformanceAnalytics
    \/ getContractAnalytics
    \/ listAreas
    \/ listDrivers
    \/ listVehicles
    \/ getTechnicalAnalytics

Spec == Init /\ [][Next]_vars

-----------------------------------------------------------------------------
(* Ranking run: one ranked aggregation of AnalyticsRepository is called on *)
(* a store of up to MaxRankTrips trips, with a limit from 1 to MaxLimit,   *)
(* under a City or a Regional scope and the default range.                 *)

MaxRankTrips == 4
MaxLimit == 2

RankTripSets == { T \in SUBSET TripPool : Cardinality(T) <= MaxRankTrips }

RankScopes ==
    { ResolveScope(p, "none").scope :
        p \in { [Role |-> "AKIMAT", OrgID |-> "AK"], [Role |-> "KGU", OrgID |-> "K"] } }

LeaderColumns == {"t.contractor_id", "tr.driver_id", "tr.camera_id"}

RankInit ==
    /\ defaultRange = ConfigDefaultRangeDays
    /\ maxRange = ConfigMaxRangeDays
    /\ clock = ClockStart
    /\ rngIn = NoFilter
    /\ rngOut = NoFilter
    /\ rngOut2 = NoFilter
    /\ rpc = "start"
    /\ trips \in RankTripSets
    /\ lprEvents = LprPool
    /\ relations = AllRelations
    /\ pc = "idle"
    /\ req = NULL
    /\ scope \in RankScopes
    /\ resolveErr = "nil"
    /\ calls = <<>>
    /\ err = "nil"
    /\ resp = NULL
    /\ httpStatus = 0
    /\ httpBody = NULL
    /\ contractIn = NULL
    /\ contractOut = {}

\* the call a ranking run made
MkRankCall(method, column, limit) == [op |-> method, column |-> column, limit |-> limit]

TopDriversRun ==
    /\ pc = "idle"
    /\ \E limit \in 1..MaxLimit :
          \E rows \in TopDrivers(CurrentDB, scope, ServiceFilter(Service("none"), NoFilter), limit) :
              /\ req' = MkRankCall("TopDrivers", NULL, limit)
              /\ resp' = rows
    /\ pc' = "done"
    /\ UNCHANGED <<rangeVars, storeVars, contractVars, scope, resolveErr, calls, err,
                   httpStatus, httpBody>>

TopContractorsRun ==
    /\ pc = "idle"
    /\ \E limit \in 1..MaxLimit :
          \E rows \in TopContractors(CurrentDB, scope,
                                     ServiceFilter(Service("none"), NoFilter), limit) :
              /\ req' = MkRankCall("TopContractors", NULL, limit)
              /\ resp' = rows
    /\ pc' = "done"
    /\ UNCHANGED <<rangeVars, storeVars, contractVars, scope, resolveErr, calls, err,
                   httpStatus, httpBody>>

ViolationLeadersRun ==
    /\ pc = "idle"
    /\ \E limit \in 1..MaxLimit, column \in LeaderColumns :
          \E rows \in ViolationLeaders(CurrentDB, scope,
                                       ServiceFilter(Service("none"), NoFilter), column, limit) :
              /\ req' = MkRankCall("ViolationLeaders", column, limit)
              /\ resp' = rows
    /\ pc' = "done"
    /\ UNCHANGED <<rangeVars, storeVars, contractVars, scope, resolveErr, calls, err,
                   httpStatus, httpBody>>

ViolationBreakdownRun ==
    /\ pc = "idle"
    /\ \E rows \in ViolationBreakdown(CurrentDB, scope,
                                       ServiceFilter(Service("none"), NoFilter)) :
          /\ req' = MkRankCall("ViolationBreakdown", NULL, Cardinality(TripPool))
          /\ resp' = rows
    /\ pc' = "done"
    /\ UNCHANGED <<rangeVars, storeVars, contractVars, scope, resolveErr, calls, err,
                   httpStatus, httpBody>>

ContractorActivitySplitRun ==
    /\ pc = "idle"
    /\ req' = MkRankCall("ContractorActivitySplit", NULL, Cardinality(TripPool))
    /\ resp' = ContractorActivitySplit(CurrentDB, scope, ServiceRange(Service("none"), Unset))
    /\ pc' = "done"
    /\ UNCHANGED <<rangeVars, storeVars, contractVars, scope, resolveErr, calls, err,
                   httpStatus, httpBody>>

RankNext ==
    \/ TopDriversRun
    \/ TopContractorsRun
    \/ ViolationLeadersRun
    \/ ViolationBreakdownRun
    \/ ContractorActivitySplitRun

SpecRank == RankInit /\ [][RankNext]_vars

-----------------------------------------------------------------------------
(* Error run: handleError is given a service error drawn from the chains   *)
(* of at most MaxWrap layers.                                              *)

MaxWrap == 3

ErrorLayers == {ErrPermissionDenied, ErrNotFound, "ErrScopeUnsupported", "dberr", "context"}

ErrorInputs == UNION { [1..n -> ErrorLayers] : n \in 1..MaxWrap }

ErrorInit ==
    /\ defaultRange = ConfigDefaultRangeDays
    /\ maxRange = ConfigMaxRangeDays
    /\ clock = ClockStart
    /\ rngIn = NoFilter
    /\ rngOut = NoFilter
    /\ rngOut2 = NoFilter
    /\ rpc = "start"
    /\ trips = {}
    /\ lprEvents = {}
    /\ relations = AllRelations
    /\ pc = "idle"
    /\ req = NULL
    /\ scope = NULL
    /\ resolveErr = "nil"
    /\ calls = <<>>
    /\ err \in ErrorInputs
    /\ resp = NULL
    /\ httpStatus = 0
    /\ httpBody = NULL
    /\ contractIn = NULL
    /\ contractOut = {}

handleErrorRun ==
    /\ pc = "idle"
    /\ httpStatus' = handleError(err).status
    /\ httpBody' = handleError(err).body
    /\ pc' = "done"
    /\ UNCHANGED <<rangeVars, storeVars, contractVars, req, scope, resolveErr, calls, err, resp>>

SpecError == ErrorInit /\ [][handleErrorRun]_vars

-----------------------------------------------------------------------------
(* Contract run: the contracts relation holds one row, drawn from bounded  *)
(* volumes and window ends, and ContractProgress is called once under City *)
(* scope at a clock drawn anywhere around the window.                      *)

MaxVolume == 3
MaxContractTime == 3

ContractInputs ==
    [id : {"c1"}, contractor_id : {"A"}, created_by_org : {"K"},
     budget_total : {100}, total_cost : {50},
     minimal_volume : 0..(MaxVolume - 1), total_volume : 0..MaxVolume,
     start_at : 1..MaxContractTime, end_at : 1..MaxContractTime]

\* a contract's window [start, end] has its start at or before its end
ContractRows == { c \in ContractInputs : c.start_at <= c.end_at }

ContractInit ==
    /\ defaultRange = ConfigDefaultRangeDays
    /\ maxRange = ConfigMaxRangeDays
    /\ clock \in 0..(MaxContractTime + 1)
    /\ rngIn = NoFilter
    /\ rngOut = NoFilter
    /\ rngOut2 = NoFilter
    /\ rpc = "start"
    /\ trips = {}
    /\ lprEvents = {}
    /\ relations = AllRelations
    /\ pc = "idle"
    /\ req = NULL
    /\ scope = NULL
    /\ resolveErr = "nil"
    /\ calls = <<>>
    /\ err = "nil"
    /\ resp = NULL
    /\ httpStatus = 0
    /\ httpBody = NULL
    /\ contractIn \in ContractRows
    /\ contractOut = {}

ContractProgressRun ==
    /\ contractOut = {}
    /\ contractOut' = ContractProgress(MkDB(trips, Tickets, {contractIn}, lprEvents, relations),
                                       MkScope(ScopeCity, NULL, {}), clock)
    /\ UNCHANGED <<rangeVars, storeVars, reqVars, contractIn>>

SpecContract == ContractInit /\ [][ContractProgressRun]_vars

-----------------------------------------------------------------------------
(* Series run: TripSeries is called once on a store of up to               *)
(* MaxSeriesTrips trips whose entry instants fall at the start of a day    *)
(* and in the middle of one, with a valid range that starts or ends on     *)
(* either, under a City or a Contractor scope.                             *)

MaxSeriesTrips == 2

MkSeriesTrip(id, ticket, driver, at) ==
    [id |-> id, ticket_id |-> ticket, camera_id |-> "cam1", polygon_id |-> "p1",
     driver_id |-> driver, vehicle_id |-> "v1", status |-> "OK",
     entry_at |-> at, exit_at |-> at + 1, volume |-> 1]

\* entry instants: midday, the next midnight, the midday after it, and a
\* midday of the following week
SeriesTripPool ==
    { MkSeriesTrip("s1", "tA", "d1", ClockStart - 5),
      MkSeriesTrip("s2", "tA", "d1", ClockStart - 4),
      MkSeriesTrip("s3", "tA", "d1", ClockStart - 3),
      MkSeriesTrip("s4", "tA", "d1", ClockStart - 1),
      MkSeriesTrip("s5", "tB", "d2", ClockStart - 5),
      MkSeriesTrip("s6", "tB", "d2", ClockStart - 4),
      MkSeriesTrip("s7", "tB", "d2", ClockStart - 3),
      MkSeriesTrip("s8", "tB", "d2", ClockStart - 1) }

SeriesTripSets == { T \in SUBSET SeriesTripPool : Cardinality(T) <= MaxSeriesTrips }

SeriesScopes ==
    { ResolveScope(p, "none").scope :
        p \in { [Role |-> "AKIMAT", OrgID |-> "AK"], [Role |-> "CONTRACTOR", OrgID |-> "A"] } }

\* normalized ranges: from midnight or midday, to midnight, midday or now
SeriesRanges ==
    { [From |-> ClockStart - 6, To |-> ClockStart],
      [From |-> ClockStart - 5, To |-> ClockStart],
      [From |-> ClockStart - 6, To |-> ClockStart - 4] }

SeriesFilters ==
    { MkFilter(r, g, NULL, NULL) : r \in SeriesRanges, g \in {"day", "week", "month", ""} }

SeriesInit ==
    /\ defaultRange = ConfigDefaultRangeDays
    /\ maxRange = ConfigMaxRangeDays
    /\ clock = ClockStart
    /\ rngIn = NoFilter
    /\ rngOut = NoFilter
    /\ rngOut2 = NoFilter
    /\ rpc = "start"
    /\ trips \in SeriesTripSets
    /\ lprEvents = {}
    /\ relations = AllRelations
    /\ pc = "idle"
    /\ req = NULL
    /\ scope \in SeriesScopes
    /\ resolveErr = "nil"
    /\ calls = <<>>
    /\ err = "nil"
    /\ resp = NULL
    /\ httpStatus = 0
    /\ httpBody = NULL
    /\ contractIn = NULL
    /\ contractOut = {}

\* the call a series run made
MkSeriesCall(method, filter) == [op |-> method, filter |-> filter]

TripSeriesRun ==
    /\ pc = "idle"
    /\ \E f \in SeriesFilters :
          /\ req' = MkSeriesCall("TripSeries", f)
          /\ resp' = TripSeries(CurrentDB, scope, f)
    /\ pc' = "done"
    /\ UNCHANGED <<rangeVars, storeVars, contractVars, scope, resolveErr, calls, err,
                   httpStatus, httpBody>>

\* the caller whose scope is the scope of the run
SeriesPrincipal ==
    CHOOSE p \in { [Role |-> "AKIMAT", OrgID |-> "AK"], [Role |-> "CONTRACTOR", OrgID |-> "A"] } :
        ResolveScope(p, "none").scope = scope

GetTripAnalyticsRun ==
    /\ pc = "idle"
    /\ \E f \in SeriesFilters :
          \E o \in GetTripAnalytics(Service("none"), SeriesPrincipal, f) :
              /\ req' = MkSeriesCall("GetTripAnalytics", f)
              /\ calls' = o.calls
              /\ err' = o.err
              /\ resp' = o.resp
    /\ pc' = "done"
    /\ UNCHANGED <<rangeVars, storeVars, contractVars, scope, resolveErr,
                   httpStatus, httpBody>>

SeriesNext ==
    \/ TripSeriesRun
    \/ GetTripAnalyticsRun

SpecSeries == SeriesInit /\ [][SeriesNext]_vars

-----------------------------------------------------------------------------
(* Scope run: one scope-predicate function is applied, for a Scope value   *)
(* of any type with or without an organization id, to a query over a       *)
(* relation that holds every combination of the two scope columns.         *)

ScopeTypeInputs == {ScopeCity, ScopeKgu, ScopeContractor, ScopeTechnical, "DISTRICT"}

ScopeInputs ==
    { MkScope(t, o, c) :
        t \in ScopeTypeInputs, o \in {NULL, "A", "K"}, c \in {{}, {"A", "B"}} }

\* the rows of the queried relation, by their scope columns
ScopeRows ==
    [contractor_id : {"A", "B", "C", NULL}, created_by_org_id : {"K", "K2", "AK", NULL}]

ScopeInit ==
    /\ defaultRange = ConfigDefaultRangeDays
    /\ maxRange = ConfigMaxRangeDays
    /\ clock = ClockStart
    /\ rngIn = NoFilter
    /\ rngOut = NoFilter
    /\ rngOut2 = NoFilter
    /\ rpc = "start"
    /\ trips = {}
    /\ lprEvents = {}
    /\ relations = AllRelations
    /\ pc = "idle"
    /\ req = NULL
    /\ scope \in ScopeInputs
    /\ resolveErr = "nil"
    /\ calls = <<>>
    /\ err = "nil"
    /\ resp = NULL
    /\ httpStatus = 0
    /\ httpBody = NULL
    /\ contractIn = NULL
    /\ contractOut = {}

\* the call a scope run made
MkScopeCall(function) == [op |-> function]

applyTripScopeRun ==
    /\ pc = "idle"
    /\ req' = MkScopeCall("applyTripScope")
    /\ resp' = { r \in ScopeRows : applyTripScope(scope, r) }
    /\ pc' = "done"
    /\ UNCHANGED <<rangeVars, storeVars, contractVars, scope, resolveErr, calls, err,
                   httpStatus, httpBody>>

applyTicketScopeRun ==
    /\ pc = "idle"
    /\ req' = MkScopeCall("applyTicketScope")
    /\ resp' = { r \in ScopeRows : applyTicketScope(scope, r) }
    /\ pc' = "done"
    /\ UNCHANGED <<rangeVars, storeVars, contractVars, scope, resolveErr, calls, err,
                   httpStatus, httpBody>>

applyContractScopeRun ==
    /\ pc = "idle"
    /\ req' = MkScopeCall("applyContractScope")
    /\ resp' = { r \in ScopeRows : applyContractScope(scope, r) }
    /\ pc' = "done"
    /\ UNCHANGED <<rangeVars, storeVars, contractVars, scope, resolveErr, calls, err,
                   httpStatus, httpBody>>

applyMVTripScopeRun ==
    /\ pc = "idle"
    /\ req' = MkScopeCall("applyMVTripScope")
    /\ resp' = { r \in ScopeRows : applyMVTripScope(scope, r) }
    /\ pc' = "done"
    /\ UNCHANGED <<rangeVars, storeVars, contractVars, scope, resolveErr, calls, err,
                   httpStatus, httpBody>>

applyMVCleaningAreaScopeRun ==
    /\ pc = "idle"
    /\ req' = MkScopeCall("applyMVCleaningAreaScope")
    /\ resp' = { r \in ScopeRows : applyMVCleaningAreaScope(scope, r) }
    /\ pc' = "done"
    /\ UNCHANGED <<rangeVars, storeVars, contractVars, scope, resolveErr, calls, err,
                   httpStatus, httpBody>>

ScopeNext ==
    \/ applyTripScopeRun
    \/ applyTicketScopeRun
    \/ applyContractScopeRun
    \/ applyMVTripScopeRun
    \/ applyMVCleaningAreaScopeRun

SpecScope == ScopeInit /\ [][ScopeNext]_vars

-----------------------------------------------------------------------------
(* Clamp run: the same caller-supplied filter is given, at the same clock  *)
(* and configuration, to AnalyticsFilter.ClampRange, to normalizeFilter    *)
(* and, as a bare range, to normalizeRange.                                *)

ClampRange(f, now, defDays, maxDays) ==
    LET r1 == IF IsZero(f.Range.From) \/ IsZero(f.Range.To)
              THEN [From |-> AddDate(now, -defDays), To |-> now]
              ELSE f.Range
        r2 == IF Before(r1.To, r1.From) THEN [r1 EXCEPT !.To = Add(r1.From, DayUnits)] ELSE r1
        r3 == IF Sub(r2.To, r2.From) > DaysDuration(maxDays)
              THEN [r2 EXCEPT !.From = Add(r2.To, -DaysDuration(maxDays))] ELSE r2
    IN [f EXCEPT !.Range = r3]

ClampInit ==
    /\ defaultRange \in DefaultRangeInputs
    /\ maxRange \in MaxRangeInputs
    /\ clock = ClockStart
    /\ rngIn \in [Range : [From : TimeInputs, To : TimeInputs], GroupBy : {"day"}]
    /\ rngOut = NULL
    /\ rngOut2 = NULL
    /\ rpc = "start"
    /\ trips = {}
    /\ lprEvents = {}
    /\ relations = {}
    /\ pc = "idle"
    /\ req = NULL
    /\ scope = NULL
    /\ resolveErr = "nil"
    /\ calls = <<>>
    /\ err = "nil"
    /\ resp = NULL
    /\ httpStatus = 0
    /\ httpBody = NULL
    /\ contractIn = NULL
    /\ contractOut = {}

\* a function of the clamp run has been called
Called(name) == \E i \in 1..Len(calls) : calls[i] = name

ClampRangeRun ==
    /\ ~Called("ClampRange")
    /\ resp' = ClampRange(rngIn, clock, defaultRange, maxRange)
    /\ calls' = Append(calls, "ClampRange")
    /\ UNCHANGED <<rangeVars, storeVars, contractVars, pc, req, scope, resolveErr, err,
                   httpStatus, httpBody>>

normalizeFilterRun ==
    /\ ~Called("normalizeFilter")
    /\ rngOut' = normalizeFilter(rngIn, clock, defaultRange, maxRange)
    /\ calls' = Append(calls, "normalizeFilter")
    /\ UNCHANGED <<defaultRange, maxRange, clock, rngIn, rngOut2, rpc, storeVars, contractVars,
                   pc, req, scope, resolveErr, err, resp, httpStatus, httpBody>>

normalizeRangeRun ==
    /\ ~Called("normalizeRange")
    /\ rngOut2' = normalizeRange(rngIn.Range, clock, defaultRange, maxRange)
    /\ calls' = Append(calls, "normalizeRange")
    /\ UNCHANGED <<defaultRange, maxRange, clock, rngIn, rngOut, rpc, storeVars, contractVars,
                   pc, req, scope, resolveErr, err, resp, httpStatus, httpBody>>

ClampNext ==
    \/ ClampRangeRun
    \/ normalizeFilterRun
    \/ normalizeRangeRun

SpecClamp == ClampInit /\ [][ClampNext]_vars

-----------------------------------------------------------------------------
(* Contract list run: the contracts relation holds the rows of a list, the *)
(* data store returns them in the order of the list, and                   *)
(* GetContractAnalytics builds its response under City scope.  A list has  *)
(* up to MaxContracts rows, more than the five a subset keeps.             *)

MaxContracts == 6
ShortContracts == 3

\* total cost, total volume and whether the window has ended, for a budget
\* of 100 and a minimal volume of 100
ContractProfiles ==
    { [cost |-> 120, volume |-> 50, ended |-> TRUE],
      [cost |-> 150, volume |-> 80, ended |-> TRUE],
      [cost |-> 50, volume |-> 120, ended |-> TRUE],
      [cost |-> 120, volume |-> 50, ended |-> FALSE] }

ContractIds == <<"c1", "c2", "c3", "c4", "c5", "c6", "c7">>

MkContract(i, profile) ==
    [id |-> ContractIds[i], contractor_id |-> "A", created_by_org |-> "K",
     budget_total |-> 100, total_cost |-> profile.cost,
     minimal_volume |-> 100, total_volume |-> profile.volume,
     start_at |-> ClockStart - 60,
     end_at |-> IF profile.ended THEN ClockStart - 20 ELSE ClockStart + 20]

\* the long lists: the first MaxContracts of these rows, with equal and
\* different keys, read from any row on
LongProfiles ==
    << [cost |-> 120, volume |-> 50, ended |-> TRUE],
       [cost |-> 150, volume |-> 80, ended |-> TRUE],
       [cost |-> 50, volume |-> 120, ended |-> TRUE],
       [cost |-> 120, volume |-> 50, ended |-> FALSE],
       [cost |-> 150, volume |-> 50, ended |-> TRUE],
       [cost |-> 120, volume |-> 80, ended |-> TRUE],
       [cost |-> 80, volume |-> 90, ended |-> FALSE] >>

ContractLists ==
    { [i \in 1..n |-> MkContract(i, P[i])] :
        n \in {ShortContracts}, P \in [1..ShortContracts -> ContractProfiles] }
    \cup
    { [i \in 1..MaxContracts |->
          MkContract(((i + k) % MaxContracts) + 1, LongProfiles[((i + k) % MaxContracts) + 1])] :
        k \in 0..(MaxContracts - 1) }

ContractListInit ==
    /\ defaultRange = ConfigDefaultRangeDays
    /\ maxRange = ConfigMaxRangeDays
    /\ clock = ClockStart
    /\ rngIn = NoFilter
    /\ rngOut = NoFilter
    /\ rngOut2 = NoFilter
    /\ rpc = "start"
    /\ trips = {}
    /\ lprEvents = {}
    /\ relations = AllRelations
    /\ pc = "idle"
    /\ req = NULL
    /\ scope = MkScope(ScopeCity, "AK", {})
    /\ resolveErr = "nil"
    /\ calls = <<>>
    /\ err = "nil"
    /\ resp = NULL
    /\ httpStatus = 0
    /\ httpBody = NULL
    /\ contractIn \in ContractLists
    /\ contractOut = {}

\* what ContractProgress returns for the list: the row of each contract, in
\* the order of the list
ReturnedContracts ==
    LET rows == ContractProgress(
                    MkDB(trips, Tickets, { contractIn[i] : i \in DOMAIN contractIn },
                         lprEvents, relations), scope, clock)
    IN [i \in DOMAIN contractIn |-> CHOOSE r \in rows : r.contract_id = contractIn[i].id]

GetContractAnalyticsRun ==
    /\ pc = "idle"
    /\ req' = [op |-> "GetContractAnalytics"]
    /\ resp' \in ContractAnalytics(ReturnedContracts)
    /\ pc' = "done"
    /\ UNCHANGED <<rangeVars, storeVars, contractVars, scope, resolveErr, calls, err,
                   httpStatus, httpBody>>

SpecContractList == ContractListInit /\ [][GetContractAnalyticsRun]_vars

-----------------------------------------------------------------------------
(* Heat run: CleaningAreaActivity or MapStates is called once on a store   *)
(* of up to MaxRankTrips trips, enough for areas of different trip counts, *)
(* under a City or a Regional scope and the default range.                 *)

CleaningAreaActivityRun ==
    /\ pc = "idle"
    /\ req' = MkRankCall("CleaningAreaActivity", NULL, Cardinality(TripPool))
    /\ resp' = CleaningAreaActivity(CurrentDB, scope, ServiceRange(Service("none"), Unset))
    /\ pc' = "done"
    /\ UNCHANGED <<rangeVars, storeVars, contractVars, scope, resolveErr, calls, err,
                   httpStatus, httpBody>>

MapStatesRun ==
    /\ pc = "idle"
    /\ req' = MkRankCall("MapStates", NULL, Cardinality(TripPool))
    /\ resp' = MapStates(CurrentDB, scope, ServiceRange(Service("none"), Unset))
    /\ pc' = "done"
    /\ UNCHANGED <<rangeVars, storeVars, contractVars, scope, resolveErr, calls, err,
                   httpStatus, httpBody>>

HeatNext ==
    \/ CleaningAreaActivityRun
    \/ MapStatesRun

SpecHeat == RankInit /\ [][HeatNext]_vars

-----------------------------------------------------------------------------
(* Concurrent run: MaxRequests report requests are served by one           *)
(* AnalyticsService over one unchanged data store, their steps             *)
(* interleaved in any order.  A request first passes the role gate and     *)
(* resolves its scope into a local variable, then runs its aggregations    *)
(* and returns.  Neither step writes a field of the service or of the      *)
(* repository; calls is the order in which the steps were taken.           *)

MaxRequests == 2

ConcurrentPrincipals ==
    { [Role |-> "AKIMAT", OrgID |-> "AK"], [Role |-> "CONTRACTOR", OrgID |-> "A"],
      [Role |-> "DRIVER", OrgID |-> "A"] }

ConcurrentOperations == {"getDashboard", "listAreas"}

\* a trip of contractor A and a trip of contractor B
ConcurrentTripSets == { { tr \in TripPool : tr.id \in {"tr1", "tr3"} } }

NotStarted ==
    [pos |-> "idle", op |-> NULL, principal |-> NULL, rs |-> NotResolved,
     err |-> "nil", resp |-> NULL]

ConcurrentInit ==
    /\ defaultRange = ConfigDefaultRangeDays
    /\ maxRange = ConfigMaxRangeDays
    /\ clock = ClockStart
    /\ rngIn = NoFilter
    /\ rngOut = NoFilter
    /\ rngOut2 = NoFilter
    /\ rpc = "start"
    /\ trips \in ConcurrentTripSets
    /\ lprEvents = LprPool
    /\ relations = AllRelations
    /\ pc = "idle"
    /\ req = [i \in 1..MaxRequests |-> NotStarted]
    /\ scope = NULL
    /\ resolveErr = "nil"
    /\ calls = <<>>
    /\ err = "nil"
    /\ resp = NULL
    /\ httpStatus = 0
    /\ httpBody = NULL
    /\ contractIn = NULL
    /\ contractOut = {}

\* the outcomes of request i's service method
RequestOutcomes(i) ==
    Serve(req[i].op, Service("none"), req[i].principal, NoFilter, "tr1")

\* the request whose scope was resolved last
LastResolved ==
    LET n == CHOOSE k \in DOMAIN calls :
                 /\ calls[k][2] = "ResolveScope"
                 /\ \A m \in DOMAIN calls : calls[m][2] = "ResolveScope" => m <= k
    IN calls[n][1]

\* the scope kept in a field of the service, where the last request to
\* resolve overwrites it
ResolvedScope_Shared(i) == req[LastResolved].rs

\* the local variables scope and err of request i's service method
ResolvedScope(i) == req[i].rs

\* what request i can return after its scope was resolved
Completions(i) ==
    { o \in RequestOutcomes(i) : [scope |-> o.scope, err |-> o.resolveErr] = ResolvedScope(i) }

\* the role gate and ResolveScope of request i
ResolveStep(i) ==
    /\ req[i].pos = "idle"
    /\ \E op \in ConcurrentOperations, p \in ConcurrentPrincipals :
          \E o \in Serve(op, Service("none"), p, NoFilter, "tr1") :
              req' = [req EXCEPT ![i] =
                         [pos |-> "resolved", op |-> op, principal |-> p,
                          rs |-> [scope |-> o.scope, err |-> o.resolveErr],
                          err |-> "nil", resp |-> NULL]]
    /\ calls' = Append(calls, <<i, "ResolveScope">>)
    /\ UNCHANGED <<rangeVars, storeVars, contractVars, pc, scope, resolveErr, err, resp,
                   httpStatus, httpBody>>

\* the aggregations of request i and its return
AggregateStep(i) ==
    /\ req[i].pos = "resolved"
    /\ \E o \in Completions(i) :
          req' = [req EXCEPT ![i].pos = "done", ![i].err = o.err, ![i].resp = o.resp]
    /\ calls' = Append(calls, <<i, "return">>)
    /\ UNCHANGED <<rangeVars, storeVars, contractVars, pc, scope, resolveErr, err, resp,
                   httpStatus, httpBody>>

ResolveSteps == \E i \in 1..MaxRequests : ResolveStep(i)

AggregateSteps == \E i \in 1..MaxRequests : AggregateStep(i)

ConcurrentNext ==
    \/ ResolveSteps
    \/ AggregateSteps

SpecConcurrent == ConcurrentInit /\ [][ConcurrentNext]_vars

-----------------------------------------------------------------------------
(* Dashboard run: GetDashboard, past its role gate and ResolveScope, makes *)
(* its repository calls one after another, each reading the data store as  *)
(* it is at that moment, while other sessions of the data store insert     *)
(* trips and create the relations that are missing.                        *)

DashboardScopes ==
    { ResolveScope(p, "none").scope :
        p \in { [Role |-> "AKIMAT", OrgID |-> "AK"], [Role |-> "CONTRACTOR", OrgID |-> "A"] } }

\* the trips other sessions may insert: one in cleaning area ar1, one in ar2
DashboardInserts == { tr \in TripPool : tr.id \in {"tr1", "tr5"} }

DashboardRange == ServiceRange(Service("none"), Unset)

\* metrics := &model.DashboardMetrics{GeneratedFor: rangeNormalized}
NewMetrics ==
    [generated_for |-> DashboardRange, stats |-> ZeroStats, areas |-> {},
     contractors |-> [active |-> {}, idle |-> {}], contracts |-> {}, map |-> NoMap,
     cameras |-> {}]

DashboardInit ==
    /\ defaultRange = ConfigDefaultRangeDays
    /\ maxRange = ConfigMaxRangeDays
    /\ clock = ClockStart
    /\ rngIn = NoFilter
    /\ rngOut = NoFilter
    /\ rngOut2 = NoFilter
    /\ rpc = "start"
    /\ trips \in SUBSET DashboardInserts
    /\ lprEvents = LprPool
    /\ relations \in {AllRelations, AllRelations \ ({"trips", "tickets"} \cup Rollups)}
    /\ pc = "DashboardStats"
    /\ req = NULL
    /\ scope \in DashboardScopes
    /\ resolveErr = "nil"
    /\ calls = <<>>
    /\ err = "nil"
    /\ resp = NewMetrics
    /\ httpStatus = 0
    /\ httpBody = NULL
    /\ contractIn = NULL
    /\ contractOut = {}

DashboardStatsStep ==
    /\ pc = "DashboardStats"
    /\ resp' = [resp EXCEPT !.stats = DashboardStats(CurrentDB, scope, DashboardRange)]
    /\ calls' = Append(calls, "DashboardStats")
    /\ pc' = "CleaningAreaActivity"
    /\ UNCHANGED <<rangeVars, storeVars, contractVars, req, scope, resolveErr, err,
                   httpStatus, httpBody>>

CleaningAreaActivityStep ==
    /\ pc = "CleaningAreaActivity"
    /\ resp' = [resp EXCEPT !.areas = CleaningAreaActivity(CurrentDB, scope, DashboardRange)]
    /\ calls' = Append(calls, "CleaningAreaActivity")
    /\ pc' = "ContractorActivitySplit"
    /\ UNCHANGED <<rangeVars, storeVars, contractVars, req, scope, resolveErr, err,
                   httpStatus, httpBody>>

ContractorActivitySplitStep ==
    /\ pc = "ContractorActivitySplit"
    /\ resp' = [resp EXCEPT !.contractors = ContractorActivitySplit(CurrentDB, scope, DashboardRange)]
    /\ calls' = Append(calls, "ContractorActivitySplit")
    /\ pc' = "ContractProgress"
    /\ UNCHANGED <<rangeVars, storeVars, contractVars, req, scope, resolveErr, err,
                   httpStatus, httpBody>>

ContractProgressStep ==
    /\ pc = "ContractProgress"
    /\ resp' = [resp EXCEPT !.contracts = ContractProgress(CurrentDB, scope, clock)]
    /\ calls' = Append(calls, "ContractProgress")
    /\ pc' = "MapStates"
    /\ UNCHANGED <<rangeVars, storeVars, contractVars, req, scope, resolveErr, err,
                   httpStatus, httpBody>>

MapStatesStep ==
    /\ pc = "MapStates"
    /\ resp' = [resp EXCEPT !.map = MapStates(CurrentDB, scope, DashboardRange)]
    /\ calls' = Append(calls, "MapStates")
    /\ pc' = "CameraLoad"
    /\ UNCHANGED <<rangeVars, storeVars, contractVars, req, scope, resolveErr, err,
                   httpStatus, httpBody>>

CameraLoadStep ==
    /\ pc = "CameraLoad"
    /\ err' = CameraLoadError(CurrentDB, scope)
    /\ resp' = IF CameraLoadError(CurrentDB, scope) # "nil" THEN resp
               ELSE [resp EXCEPT !.cameras = CameraLoad(CurrentDB, scope, DashboardRange)]
    /\ calls' = Append(calls, "CameraLoad")
    /\ pc' = "done"
    /\ UNCHANGED <<rangeVars, storeVars, contractVars, req, scope, resolveErr,
                   httpStatus, httpBody>>

\* another session inserts a row into trips
InsertTrip ==
    /\ pc # "done"
    /\ "trips" \in relations
    /\ \E tr \in DashboardInserts \ trips : trips' = trips \cup {tr}
    /\ UNCHANGED <<rangeVars, lprEvents, relations, reqVars, contractVars>>

\* a migration creates the relations that are missing
CreateRelations ==
    /\ pc # "done"
    /\ relations # AllRelations
    /\ relations' = AllRelations
    /\ UNCHANGED <<rangeVars, trips, lprEvents, reqVars, contractVars>>

DashboardNext ==
    \/ DashboardStatsStep
    \/ CleaningAreaActivityStep
    \/ ContractorActivitySplitStep
    \/ ContractProgressStep
    \/ MapStatesStep
    \/ CameraLoadStep
    \/ InsertTrip
    \/ CreateRelations

SpecDashboard == DashboardInit /\ [][DashboardNext]_vars


-----------------------------------------------------------------------------
(* Tenant isolation                                                        *)

\* the data store without the trips, tickets and contracts of every
\* contractor other than org
OwnRows(db, org) ==
    MkDB({ tr \in db.trips : TicketCols(db, tr).contractor_id = org },
         { t \in db.tickets : t.contractor_id = org },
         { c \in db.contracts : c.contractor_id = org },
         db.lpr, db.relations)

\* the responses the served request can get from the data store db
ResponsesOn(db) ==
    { o.resp : o \in { x \in Serve(req.op, [Service(req.fault) EXCEPT !.db = db],
                                   req.principal, req.filter, req.tripID) :
                         x.err = "nil" } }

ContractorA == [Role |-> "CONTRACTOR", OrgID |-> "A"]

\* C1: every value a report returns to a caller with Contractor scope A is
\* derived from rows of contractor A only: the response is one the request
\* gets when the rows of contractors B and C are absent from the data store.
C1_ContractorIsolation ==
    (pc = "done" /\ err = "nil" /\ req.principal = ContractorA)
        => resp \in ResponsesOn(OwnRows(CurrentDB, "A"))

-----------------------------------------------------------------------------
(* Role eligibility                                                        *)

\* the eligibility table: the roles a report is denied to
Denied(op, principal) ==
    \/ IsDriver(principal)
    \/ op \in {"listAreas", "listDrivers", "listVehicles"} /\ IsToo(principal)
    \/ op = "getTechnicalAnalytics"
         /\ ~(IsAkimat(principal) \/ IsKgu(principal) \/ IsToo(principal))

\* C2: a request of a role the eligibility table denies for the report ends
\* with PermissionDenied, and neither ResolveScope nor a repository query
\* was called while it was served.
C2_DeniedBeforeAnyCall ==
    (pc = "done" /\ Denied(req.op, req.principal))
        => /\ err = ErrPermissionDenied
           /\ httpStatus = 403
           /\ calls = <<>>

C2_Witness ==
    /\ pc = "done"
    /\ req.op = "listAreas"
    /\ IsToo(req.principal)
    /\ err = ErrPermissionDenied
    /\ calls = <<>>

OperationalReports ==
    {"getDashboard", "getTripAnalytics", "getViolationAnalytics",
     "getPerformanceAnalytics", "getContractAnalytics"}

\* the scope of the principal was resolved, and without a failure
Resolved == calls # <<>> /\ resolveErr = "nil"

\* C3: for the Dashboard, Trip, Violation, Performance and Contract reports
\* only Driver is denied: an Akimat, KGU, Contractor or TOO principal whose
\* scope resolves never gets PermissionDenied from them.
C3_OnlyDriverDenied ==
    (pc = "done" /\ req.op \in OperationalReports /\ Resolved
       /\ req.principal.Role \in {"AKIMAT", "KGU", "CONTRACTOR", "TOO"})
        => err # ErrPermissionDenied

\* C3: an Akimat, KGU or Contractor principal whose scope resolves is never
\* denied the Dashboard, Trip, Violation, Performance and Contract reports;
\* a TOO principal is never denied the Dashboard, and is always denied the
\* Trip, Violation, Performance and Contract reports, once its scope has
\* resolved to Technical.
C3_TechnicalDeniedOperationalReports ==
    (pc = "done" /\ req.op \in OperationalReports /\ Resolved)
        => /\ req.principal.Role \in {"AKIMAT", "KGU", "CONTRACTOR"}
                => err # ErrPermissionDenied
           /\ (IsToo(req.principal) /\ req.op = "getDashboard") => err = "nil"
           /\ (IsToo(req.principal) /\ req.op # "getDashboard")
                => /\ err = ErrPermissionDenied
                   /\ httpStatus = 403
                   /\ calls = <<"ResolveScope">>

C3_Witness ==
    /\ pc = "done"
    /\ req.op = "getTripAnalytics"
    /\ IsToo(req.principal)
    /\ scope.Type = ScopeTechnical
    /\ err = ErrPermissionDenied

-----------------------------------------------------------------------------
(* The trip card                                                           *)

\* a trip id no stored trip has
MissingTripID == "tr0"

\* the trip is stored and its ticket belongs to a contractor other than org
ForeignTrip(id, org) ==
    \E tr \in trips : tr.id = id /\ TicketCols(CurrentDB, tr).contractor_id \notin {org, NULL}

\* C5: GetTripDetails for a caller with Contractor scope A and the id of a
\* trip of another contractor ends with ErrNotFound (404), not with
\* ErrPermissionDenied and not with the trip, and its outcome is the outcome
\* of the same request for an id that no trip has.
C5_ForeignTripNotFound ==
    (pc = "done" /\ req.op = "getTripDetails" /\ req.principal = ContractorA
       /\ ForeignTrip(req.tripID, "A"))
        => /\ err = ErrNotFound
           /\ httpStatus = 404
           /\ \E o \in GetTripDetails(Service(req.fault), req.principal, MissingTripID) :
                 /\ o.err = err
                 /\ Status(o.err) = httpStatus
                 /\ o.calls = calls
                 /\ o.resp = resp

C5_Witness ==
    /\ pc = "done"
    /\ req.op = "getTripDetails"
    /\ req.principal = ContractorA
    /\ ForeignTrip(req.tripID, "A")
    /\ calls = <<"ResolveScope", "TripDetails">>
    /\ httpStatus = 404

-----------------------------------------------------------------------------
(* The Technical scope                                                     *)

\* the data store with the camera and sensor events only
TelemetryOnly(db) == MkDB({}, {}, {}, db.lpr, db.relations)

\* the data store with, of the operational relations, only the camera,
\* status and entry time of the trips that ended in a camera error
CameraErrorsOnly(db) ==
    MkDB({ [id |-> tr.id, ticket_id |-> NULL, camera_id |-> tr.camera_id,
            polygon_id |-> NULL, driver_id |-> NULL, vehicle_id |-> NULL,
            status |-> tr.status, entry_at |-> tr.entry_at, exit_at |-> NoTime,
            volume |-> 0] : tr \in { x \in db.trips : x.status \in CameraErrorStatuses } },
         {}, {}, db.lpr, db.relations)

TechnicalDashboard ==
    pc = "done" /\ req.op = "getDashboard" /\ err = "nil" /\ scope.Type = ScopeTechnical

C7_TechnicalReportCityWide ==
    (pc = "done" /\ req.op = "getTechnicalAnalytics" /\ err = "nil")
        => resp = TechnicalAnalytics(CurrentDB, MkScope(ScopeCity, NULL, {}),
                                     ServiceRange(Service(req.fault), req.filter.Range))

\* creating organization = O OR contractor in K; creating organization = O
\* when K is empty
RegionalPredicate(sc, r) ==
    IF sc.ContractorIDs # {}
    THEN r.created_by_org_id = sc.OrgID \/ r.contractor_id \in sc.ContractorIDs
    ELSE r.created_by_org_id = sc.OrgID

\* the scope columns of the stored trips, tickets and contracts
ScopeColumns ==
    { [contractor_id |-> TicketCols(CurrentDB, tr).contractor_id,
       created_by_org_id |-> TicketCols(CurrentDB, tr).created_by_org_id] : tr \in trips }
    \cup { [contractor_id |-> t.contractor_id,
            created_by_org_id |-> t.created_by_org_id] : t \in Tickets }
    \cup { [contractor_id |-> c.contractor_id,
            created_by_org_id |-> c.created_by_org] : c \in Contracts }

\* C8: under a KGU scope with organization O and child contractors K every
\* scope predicate (trips, tickets, contracts, rollups) keeps exactly the
\* rows with creating organization O or contractor in K, and the dashboard
\* counts the tickets in progress among exactly those rows.
C8_RegionalPredicateEverywhere ==
    (pc = "done" /\ calls # <<>> /\ err = "nil"
       /\ scope.Type = ScopeKgu /\ scope.OrgID # NULL)
        => /\ \A r \in ScopeColumns :
                 /\ applyTripScope(scope, r) = RegionalPredicate(scope, r)
                 /\ applyMVTripScope(scope, r) = RegionalPredicate(scope, r)
                 /\ applyMVCleaningAreaScope(scope, r) = RegionalPredicate(scope, r)
                 /\ applyTicketScope(scope, r) = RegionalPredicate(scope, r)
                 /\ applyContractScope(scope, r) = RegionalPredicate(scope, r)
           /\ (req.op = "getDashboard" /\ tablesAvailable(CurrentDB, {"trips", "tickets"}))
                => resp.stats.tickets_in_progress =
                       Cardinality({ t \in Tickets :
                                       /\ t.status \in {"IN_PROGRESS", "COMPLETED"}
                                       /\ RegionalPredicate(scope, t) })

-----------------------------------------------------------------------------
(* Claims about contract status and result                                 *)

\* C12 as stated: the result is NONE whenever the status is not EXPIRED, and
\* for an EXPIRED contract it is SUCCESS iff totalVolume >= minimalVolume and
\* FAIL otherwise, for every volume, a zero minimal volume included.
C12_ResultFollowsVolume ==
    \A c \in contractOut :
        c.result = IF c.ui_status # "EXPIRED" THEN "NONE"
                   ELSE IF contractIn.total_volume >= contractIn.minimal_volume
                        THEN "SUCCESS" ELSE "FAIL"

\* C12 amended: the result is NONE whenever the status is not EXPIRED or the
\* minimal volume is 0; for an EXPIRED contract with a minimal volume other
\* than 0 it is SUCCESS iff totalVolume >= minimalVolume and FAIL otherwise.
C12_ResultNoneWithoutMinimum ==
    \A c \in contractOut :
        c.result = IF c.ui_status # "EXPIRED" \/ contractIn.minimal_volume = 0 THEN "NONE"
                   ELSE IF contractIn.total_volume >= contractIn.minimal_volume
                        THEN "SUCCESS" ELSE "FAIL"

C12_Witness ==
    \E c \in contractOut :
        /\ c.ui_status = "EXPIRED"
        /\ contractIn.minimal_volume = 0
        /\ c.result = "NONE"

-----------------------------------------------------------------------------
(* Claims about absent relations and failing queries                       *)

\* C14: an aggregator whose required relation does not exist returns its zero
\* value and no error, so GetDashboard for an eligible caller succeeds, with
\* zeroed or empty sub-sections, whichever relations are absent.
C14_AbsentRelationsGiveZero ==
    (pc = "done" /\ req.op = "getDashboard" /\ Resolved) =>
        /\ err = "nil"
        /\ httpStatus = 200
        /\ (scope.Type # ScopeTechnical /\ ~tablesAvailable(CurrentDB, {"trips", "tickets"}))
              => /\ resp.stats = ZeroStats
                 /\ resp.areas = {}
                 /\ resp.map = NoMap

\* C15: a data-store query that fails while a report request is served makes
\* the request end with an internal error (HTTP 500), never with
\* PermissionDenied, NotFound or a successful response.
C15_QueryFailureIsInternalError ==
    (pc = "done" /\ (resolveErr = "dberr" \/ err = "dberr")) =>
        /\ httpStatus = 500
        /\ err \notin {"nil", ErrPermissionDenied, ErrNotFound}

\* C16: handleError gives every service error one HTTP outcome: 403 for an
\* error wrapping ErrPermissionDenied, 404 for one wrapping ErrNotFound, and
\* 500 with the fixed message 'internal error' for every other error, whose
\* own text is not written.
C16_ErrorMapping ==
    pc = "done" =>
        /\ httpStatus \in {403, 404, 500}
        /\ errorsIs(err, ErrPermissionDenied) => httpStatus = 403
        /\ (errorsIs(err, ErrNotFound) /\ ~errorsIs(err, ErrPermissionDenied))
              => httpStatus = 404
        /\ (~errorsIs(err, ErrNotFound) /\ ~errorsIs(err, ErrPermissionDenied))
              => /\ httpStatus = 500
                 /\ httpBody = [error |-> <<"internal error">>]

C16_Witness ==
    /\ pc = "done"
    /\ err = <<"context", ErrNotFound>>
    /\ httpStatus = 404

-----------------------------------------------------------------------------
(* Claims about shares                                                     *)

\* the rows a ranking run returned
Returned ==
    IF req.op = "ContractorActivitySplit" THEN resp.active
    ELSE { resp[i] : i \in DOMAIN resp }

\* the rows the same call returns without a limit
Untruncated ==
    LET f == ServiceFilter(Service("none"), NoFilter)
        all == Cardinality(TripPool)
        q == CASE req.op = "TopDrivers" ->
                    CHOOSE x \in TopDrivers(CurrentDB, scope, f, all) : TRUE
               [] req.op = "TopContractors" ->
                    CHOOSE x \in TopContractors(CurrentDB, scope, f, all) : TRUE
               [] req.op = "ViolationLeaders" ->
                    CHOOSE x \in ViolationLeaders(CurrentDB, scope, f, req.column, all) : TRUE
               [] OTHER -> resp
    IN IF req.op \in {"TopDrivers", "TopContractors", "ViolationLeaders"}
       THEN { q[i] : i \in DOMAIN q } ELSE Returned

CountSum(S) == SumBy(S, [r \in S |-> r.count])

\* the sum of the shares of a set of rows, as a quotient
RECURSIVE ShareSum(_)
ShareSum(S) ==
    IF S = {} THEN <<0, 1>>
    ELSE LET r == CHOOSE x \in S : TRUE
             rest == ShareSum(S \ {r})
         IN <<r.share[1] * rest[2] + rest[1] * r.share[2], r.share[2] * rest[2]>>

\* C17: in every ranked list that carries a share, share_i is count_i over
\* the sum of the counts of the returned rows; the shares are all 0 when that
\* sum is 0 and otherwise sum to exactly 1 over the returned rows, and the
\* returned counts are at most the counts of the untruncated list.
C17_SharesOfReturnedRows ==
    pc = "done" =>
        /\ \A r \in Returned :
              r.share = IF CountSum(Returned) > 0
                        THEN Ratio(r.count, CountSum(Returned)) ELSE Zero
        /\ CountSum(Returned) > 0 => ShareSum(Returned)[1] = ShareSum(Returned)[2]
        /\ CountSum(Returned) = 0 => ShareSum(Returned)[1] = 0
        /\ CountSum(Returned) <= CountSum(Untruncated)

\* a truncated list of more than one row
C17_Witness ==
    /\ pc = "done"
    /\ req.op = "TopDrivers"
    /\ Cardinality(Returned) = 2
    /\ CountSum(Returned) < CountSum(Untruncated)
    /\ \E r \in Returned : r.share = <<2, 3>>

-----------------------------------------------------------------------------
(* Claims about idle hours and range ends                                  *)

\* the normalized filter of the request served
Normalized == ServiceFilter(Service("none"), req.filter)

IdleReports == {"listAreas", "listVehicles", "getPerformanceAnalytics"}

\* the rows of the response that carry idle hours
IdleRows ==
    IF req.op = "getPerformanceAnalytics"
    THEN { resp.vehicles[i] : i \in DOMAIN resp.vehicles }
    ELSE resp

\* C18: every idle-hours value of CleaningAreaAnalytics, VehicleKPIs and
\* VehiclePerformance is >= 0, also for a last activity after the range end.
C18_IdleHoursNonNegative ==
    (pc = "done" /\ err = "nil" /\ req.op \in IdleReports) =>
        \A r \in IdleRows : r.idle_hours[1] >= 0 /\ r.idle_hours[2] > 0

C18_Witness ==
    /\ pc = "done"
    /\ err = "nil"
    /\ req.op = "listAreas"
    /\ \E r \in resp : r.last_trip_at > Normalized.Range.To /\ r.idle_hours = Zero

\* the last activity of the entity of a row: its last-trip column, or for a
\* vehicle-performance row the latest entry of its trips in the range
LastActivity(r) ==
    IF req.op = "getPerformanceAnalytics"
    THEN MaxOf({ tr.entry_at :
                   tr \in { x \in InRange(ScopedTrips(CurrentDB, scope), Normalized.Range) :
                              x.vehicle_id = r.id } })
    ELSE r.last_trip_at

\* C19: every idle-hours value equals max(0, range end minus the last
\* activity of the entity), in hours.
C19_IdleSinceLastActivity ==
    (pc = "done" /\ err = "nil" /\ req.op \in IdleReports) =>
        \A r \in IdleRows :
            r.idle_hours = IF Normalized.Range.To - LastActivity(r) > 0
                           THEN Ratio((Normalized.Range.To - LastActivity(r)) * 24, DayUnits)
                           ELSE Zero

\* C20: ranges are half-open: the trips a City caller's driver KPIs count
\* are those entered at or after the normalized from and before the
\* normalized to.
C20_HalfOpenRange ==
    (pc = "done" /\ err = "nil" /\ req.op = "listDrivers" /\ IsAkimat(req.principal)
        /\ req.filter.ContractorID = NULL /\ req.filter.DriverID = NULL
        /\ tablesAvailable(CurrentDB, {"trips", "drivers", "tickets", "organizations"})) =>
        SumBy(resp, [r \in resp |-> r.trip_count])
            = Cardinality({ tr \in trips :
                              /\ tr.driver_id # NULL
                              /\ Normalized.Range.From <= tr.entry_at
                              /\ tr.entry_at < Normalized.Range.To })


-----------------------------------------------------------------------------
(* Trip series                                                             *)

\* the in-scope trips whose entry time lies inside the range of the call
SeriesTrips == InRange(ScopedTrips(CurrentDB, scope), req.filter.Range)

\* the bucket of the requested width a trip falls in
SeriesBucket(tr) == DateTrunc(buildDateTrunc(req.filter.GroupBy), tr.entry_at)

(* C21: TripSeries returns one point per distinct bucket of the requested  *)
(* width that holds an in-scope trip entered inside the range, in strictly *)
(* ascending bucket order, and each point counts exactly the in-scope      *)
(* trips of the range that fall in its bucket, so that every such trip is  *)
(* counted in exactly one point.                                           *)
C21_OnePointPerBucket ==
    (pc = "done" /\ req.op = "TripSeries") =>
        /\ Len(resp) = Cardinality({ SeriesBucket(tr) : tr \in SeriesTrips })
        /\ \A i \in 1..Len(resp) :
              /\ resp[i].count =
                    Cardinality({ tr \in SeriesTrips : SeriesBucket(tr) = resp[i].bucket })
              /\ resp[i].count > 0
        /\ \A i, j \in 1..Len(resp) : i < j => resp[i].bucket < resp[j].bucket

-----------------------------------------------------------------------------
(* Scope predicates                                                        *)

(* C22: a scope-predicate function leaves the query unrestricted (every    *)
(* row of the relation is kept) only when the scope type is City; for      *)
(* every other Scope value, with or without an organization id and of a    *)
(* known type or not, the query is restricted.                             *)
C22_OnlyCityUnrestricted ==
    pc = "done" => (resp = ScopeRows <=> scope.Type = ScopeCity)

-----------------------------------------------------------------------------
(* One range normalization                                                 *)

(* C23: for every input range and the same default days, maximum days and  *)
(* clock, AnalyticsFilter.ClampRange, normalizeFilter and normalizeRange   *)
(* produce the same from and to.                                           *)
C23_OneNormalization ==
    (Called("ClampRange") /\ Called("normalizeFilter") /\ Called("normalizeRange")) =>
        /\ rngOut.Range = rngOut2
        /\ resp.Range = rngOut2

-----------------------------------------------------------------------------
(* Contract subsets                                                        *)

\* every entry of the list is an entry of the summary
WithinSummary(list) ==
    \A i \in DOMAIN list : \E j \in DOMAIN resp.summary : resp.summary[j] = list[i]

\* the list is in non-increasing order of budget progress
BudgetDescending(list) ==
    \A i, j \in DOMAIN list :
        i < j => ~RatioLess(list[i].budget_progress, list[j].budget_progress)

(* C24: in a contract report, at_risk holds only contracts with status     *)
(* EXPIRED and result FAIL in ascending order of volume progress,          *)
(* budget_issues holds only contracts with budget progress above 1 in      *)
(* descending order of budget progress, top_budget is in descending order  *)
(* of budget progress, each of the three has at most 5 entries, all of     *)
(* them entries of summary, and summary is the list of scoped contracts in *)
(* the order the repository returned them.                                 *)
C24_ContractSubsets ==
    (pc = "done" /\ req.op = "GetContractAnalytics") =>
        /\ resp.summary = ReturnedContracts
        /\ \A i \in DOMAIN resp.at_risk :
              resp.at_risk[i].ui_status = "EXPIRED" /\ resp.at_risk[i].result = "FAIL"
        /\ \A i, j \in DOMAIN resp.at_risk :
              i < j => ~RatioLess(resp.at_risk[j].volume_progress,
                                  resp.at_risk[i].volume_progress)
        /\ \A i \in DOMAIN resp.budget_issues :
              RatioLess(<<1, 1>>, resp.budget_issues[i].budget_progress)
        /\ BudgetDescending(resp.budget_issues)
        /\ BudgetDescending(resp.top_budget)
        /\ Len(resp.top_budget) <= 5 /\ Len(resp.at_risk) <= 5 /\ Len(resp.budget_issues) <= 5
        /\ WithinSummary(resp.top_budget)
        /\ WithinSummary(resp.at_risk)
        /\ WithinSummary(resp.budget_issues)

\* six contracts returned in an order that is not the budget order, five of
\* them kept in top_budget, and at-risk contracts of different volume progress
C24_Witness ==
    /\ pc = "done" /\ req.op = "GetContractAnalytics"
    /\ Len(resp.summary) = MaxContracts
    /\ ~BudgetDescending(resp.summary)
    /\ Len(resp.top_budget) = 5
    /\ \E i, j \in DOMAIN resp.at_risk :
          RatioLess(resp.at_risk[i].volume_progress, resp.at_risk[j].volume_progress)
    /\ Len(resp.budget_issues) > 1

-----------------------------------------------------------------------------
(* Top-N lists                                                             *)

TopNOps == {"TopDrivers", "TopContractors", "ViolationLeaders"}

\* every list the call of a ranking run may return on the same stored data
RankOutcomes ==
    LET f == ServiceFilter(Service("none"), NoFilter)
    IN CASE req.op = "TopDrivers" -> TopDrivers(CurrentDB, scope, f, req.limit)
         [] req.op = "TopContractors" -> TopContractors(CurrentDB, scope, f, req.limit)
         [] OTHER -> ViolationLeaders(CurrentDB, scope, f, req.column, req.limit)

(* C25: a Top-N list is in non-increasing order of its count, has at most  *)
(* N entries, omits no entity whose count is larger than that of a kept    *)
(* one, and is the only list the same request can return on the same       *)
(* stored data: equal counts always come in the same order and the same    *)
(* entities are kept at the cut-off.                                       *)
C25_TopNDeterministic ==
    (pc = "done" /\ req.op \in TopNOps) =>
        /\ Len(resp) <= req.limit
        /\ \A i, j \in DOMAIN resp : i < j => resp[i].count >= resp[j].count
        /\ \A o \in Untruncated :
              (\A i \in DOMAIN resp : resp[i].id # o.id) =>
                  \A i \in DOMAIN resp : o.count <= resp[i].count
        /\ RankOutcomes = {resp}

-----------------------------------------------------------------------------
(* Heat intensity                                                          *)

\* the rows CleaningAreaActivity returns for the call of a heat run
ActivityRows == CleaningAreaActivity(CurrentDB, scope, ServiceRange(Service("none"), Unset))

(* C26: CleaningAreaActivity sets each area's heat to its trip count over  *)
(* the largest trip count among the areas of the same response (0 when     *)
(* that maximum is 0), so every heat lies in [0, 1] and a non-empty        *)
(* response has an area of heat exactly 1; MapStates reports each area     *)
(* with an intensity equal to that heat.                                   *)
C26_HeatOverLargest ==
    /\ (pc = "done" /\ req.op = "CleaningAreaActivity") =>
          LET largest == MaxOf({ a.trips : a \in resp })
          IN /\ \A a \in resp :
                   /\ a.trip_heat = IF largest > 0 THEN Ratio(a.trips, largest) ELSE Zero
                   /\ ~RatioLess(a.trip_heat, Zero)
                   /\ ~RatioLess(<<1, 1>>, a.trip_heat)
             /\ resp # {} => \E a \in resp : a.trip_heat = <<1, 1>>
    /\ (pc = "done" /\ req.op = "MapStates") =>
          /\ { m.id : m \in resp.areas } = { a.cleaning_area_id : a \in ActivityRows }
          /\ \A m \in resp.areas : \A a \in ActivityRows :
                 a.cleaning_area_id = m.id => m.intensity = a.trip_heat

\* two areas of different trip counts: one has heat 1, the other less
C26_Witness ==
    /\ pc = "done" /\ req.op = "CleaningAreaActivity"
    /\ \E a, b \in resp : a.trip_heat = <<1, 1>> /\ RatioLess(Zero, b.trip_heat)
                          /\ RatioLess(b.trip_heat, <<1, 1>>)

-----------------------------------------------------------------------------
(* Grouping granularity                                                    *)

Granularities == {"day", "week", "month", ""}

\* the trip reports the request of a series run may get with group_by g
TripReports(g) ==
    { o.resp : o \in GetTripAnalytics(Service("none"), SeriesPrincipal,
                                      [req.filter EXCEPT !.GroupBy = g]) }

\* the sections of a trip report that are not time series
NotSeries(r) ==
    [top_drivers |-> r.top_drivers, top_contractors |-> r.top_contractors,
     duration_stats |-> r.duration_stats, volume_stats |-> r.volume_stats]

\* the sum of the counts over the points of a series
SeriesTotal(series) == SumBy(DOMAIN series, [i \in DOMAIN series |-> series[i].count])

(* C27: for fixed stored data, scope and range, the trip reports for       *)
(* group_by day, week, month and an unrecognized value (served as day)     *)
(* have the same top lists and duration and volume stats, and the counts   *)
(* of the trip series sum to the same total; only the series' buckets      *)
(* differ.                                                                 *)
C27_GroupingOnlyBuckets ==
    (pc = "done" /\ req.op = "GetTripAnalytics") =>
        \A g \in Granularities :
            /\ { NotSeries(r) : r \in TripReports(g) } =
                   { NotSeries(r) : r \in TripReports(req.filter.GroupBy) }
            /\ \A r \in TripReports(g) :
                   /\ SeriesTotal(r.series) = SeriesTotal(resp.series)
                   /\ SeriesTotal(r.volume_series) = SeriesTotal(resp.volume_series)
            /\ TripReports("") = TripReports("day")

\* a weekly series with one point of two trips that the daily series shows
\* as two points
C27_Witness ==
    /\ pc = "done" /\ req.op = "GetTripAnalytics"
    /\ req.filter.GroupBy = "week"
    /\ Len(resp.series) = 1 /\ resp.series[1].count = 2
    /\ \E r \in TripReports("day") : Len(r.series) = 2

-----------------------------------------------------------------------------
(* Independence of concurrent requests                                     *)

\* the error and response of an outcome
Returns(o) == [err |-> o.err, resp |-> o.resp]

\* what request i returns when it is served alone on the same stored data
Alone(i) == { Returns(o) : o \in RequestOutcomes(i) }

(* C28: the fields of AnalyticsService are never written after             *)
(* construction, and in every interleaving of the steps of concurrent      *)
(* report requests over unchanged stored data, a request in flight can     *)
(* return exactly what it returns when run alone, and a request that has   *)
(* returned has returned such a response.                                  *)
C28_RequestsIndependent ==
    /\ defaultRange = ConfigDefaultRangeDays
    /\ maxRange = ConfigMaxRangeDays
    /\ \A i \in 1..MaxRequests :
          /\ req[i].pos = "resolved" => { Returns(o) : o \in Completions(i) } = Alone(i)
          /\ req[i].pos = "done" => [err |-> req[i].err, resp |-> req[i].resp] \in Alone(i)

\* two requests under different scopes, the second resolved between the two
\* steps of the first, both returned
C28_Witness ==
    /\ Len(calls) = 4
    /\ calls[1][1] # calls[2][1] /\ calls[2][2] = "ResolveScope" /\ calls[3][1] = calls[1][1]
    /\ \A i \in 1..MaxRequests : req[i].pos = "done" /\ req[i].err = "nil"
    /\ req[1].rs # req[2].rs
    /\ req[1].op = req[2].op
    /\ trips # {}

-----------------------------------------------------------------------------
(* Consistency of one dashboard response                                   *)

(* C29: in every dashboard response, also when relations are created or    *)
(* trips are inserted while the request runs, the area ids of map.areas    *)
(* are the area ids of areas, each map area's intensity is that area's     *)
(* trip_heat, and the sections agree on whether the relations exist: the   *)
(* stats are not those of absent relations when areas holds rows.          *)
C29_DashboardConsistent ==
    (pc = "done" /\ err = "nil") =>
        /\ { m.id : m \in resp.map.areas } = { a.cleaning_area_id : a \in resp.areas }
        /\ \A m \in resp.map.areas : \A a \in resp.areas :
               a.cleaning_area_id = m.id => m.intensity = a.trip_heat
        /\ resp.areas # {} => resp.stats # ZeroStats

-----------------------------------------------------------------------------
(* Contractor and driver filters                                           *)

FilteredReports == {"getTripAnalytics", "getViolationAnalytics", "listDrivers", "listVehicles"}

\* the trips of the contractor and of the driver the request's filter names
FilterTrips ==
    { tr \in trips :
        /\ req.filter.ContractorID # NULL =>
               TicketCols(CurrentDB, tr).contractor_id = req.filter.ContractorID
        /\ req.filter.DriverID # NULL => tr.driver_id = req.filter.DriverID }

\* the responses the request gets on a store that holds those trips only
ReportsOnFilterTrips ==
    { o.resp : o \in Serve(req.op,
                           [Service(req.fault) EXCEPT
                               !.db = MkDB(FilterTrips, Tickets, Contracts, lprEvents, relations)],
                           req.principal, req.filter, req.tripID) }

(* C30: when a request carries a contractor_id or driver_id filter, every  *)
(* section of the trip, violation, driver-KPI and vehicle-KPI response is  *)
(* computed only from the trips of that contractor or driver that the      *)
(* caller's scope allows: the response is the one the same caller gets on  *)
(* a store holding those trips only.                                       *)
C30_FilterNarrowsEverySection ==
    (/\ pc = "done" /\ err = "nil" /\ req.op \in FilteredReports
     /\ (req.filter.ContractorID # NULL \/ req.filter.DriverID # NULL)) =>
        resp \in ReportsOnFilterTrips
====
